---- MODULE Spec2Model ----
(***************************************************************************)
(* Verification model of ytdl-core (TypeScript port).                      *)
(*                                                                         *)
(* Part A  the progressive / chunked stream downloader (index.ts)          *)
(* Part B  format selection (format-utils.ts)                              *)
(* Part C  retryFunc and getInfo reconciliation (info.ts, utils.ts)        *)
(* Part D  the expiring cache (cache.ts)                                   *)
(* Part E  video ids and urls (url-utils.ts)                               *)
(* Part F  extraction of the player scripts (sig.ts)                       *)
(* Part G  enrichment of the formats in getInfo (info.ts, format-utils.ts) *)
(* Part H  the cookie jar of the default agent (utils.ts, agent.ts)        *)
(*                                                                         *)
(* Each part has its own specification over the shared variables; the      *)
(* variables of the other parts stay at their initial value.               *)
(***************************************************************************)
EXTENDS Integers, Sequences, FiniteSets, TLC

\* ------------------------------------------------------------------------
\* Bounds of the model (not program constants)
\* ------------------------------------------------------------------------
MaxLen == 4
MaxChunk == 2
MaxStart == 2

\* JavaScript `undefined` for an optional number
None == -1

\* a JavaScript number used as a condition: undefined and 0 are falsy
Truthy(x) == x # None /\ x # 0

\* x || d for an optional number
OrElse(x, d) == IF Truthy(x) THEN x ELSE d

\* ========================================================================
\* Part A: downloadFromInfoCallback
\* ========================================================================
VARIABLES
  options,        \* caller options: range (has, start, end) and dlChunkSize
  format,         \* the chosen format: contentLength, hasAudio, hasVideo, isHLS
  phase,          \* "resolving" | "downloading" | "errored"
  destroyed,      \* stream.destroyed
  destroyHook,    \* which stream._destroy is installed: "create" | "download"
  start,          \* let start
  end,            \* let end
  shouldEnd,      \* let shouldEnd
  contentLength,  \* let contentLength
  downloaded,     \* let downloaded
  reqs,           \* every request issued so far; the last one is `req`
  out,            \* byte offsets written to the output stream, in order
  progress,       \* number of 'progress' events emitted on the stream
  streamEnded,    \* number of times the output stream was ended by a pipe
  errors          \* number of 'error' events emitted on the stream

dlVars == <<options, format, phase, destroyed, destroyHook, start, end,
            shouldEnd, contentLength, downloaded, reqs, out, progress,
            streamEnded, errors>>

\* the state of Part B
VARIABLES
  cfFormats,   \* the formats argument of chooseFormat
  cfOptions,   \* the options argument: quality, filter, format
  cfResult,    \* what chooseFormat returned or threw; "pending" before
  cfSorted     \* formats.sort(sortFormats) has run on the list

cfVars == <<cfFormats, cfOptions, cfResult, cfSorted>>

\* the state of Part C
VARIABLES
  giOptions,          \* options: playerClients, requestOptions.maxRetries
  giPc,               \* where getInfo is: "start" | "watch" | "waiting" |
                      \* "html5player" | "calls" | "decipher" | "resolved" |
                      \* "rejected"
  currentTry,         \* retryFunc: let currentTry
  maxRetries,         \* retryFunc: options.maxRetries
  watchCalls,         \* number of invocations of getWatchHTMLPage
  waits,              \* the delays retryFunc has waited, in order
  lastErr,            \* the error of the last failed getWatchHTMLPage
  giError,            \* the error getInfo rejected with
  info,               \* info: player_response, html5player, formats, full
  calls,              \* the device-profile calls, by client
  apiCalls,           \* number of player API requests sent, by client
  scriptFetches,      \* number of requests for the player script
  decipherCalls,      \* number of calls of sig.decipherFormats
  bestPlayerResponse, \* let bestPlayerResponse: its origin, "" for null
  functions           \* sig.cache: the scripts compiled from the player script

giVars == <<giOptions, giPc, currentTry, maxRetries, watchCalls, waits,
            lastErr, giError, info, calls, apiCalls, scriptFetches,
            decipherCalls, bestPlayerResponse, functions>>

\* the state of Part D
VARIABLES
  cache,      \* Cache.cache: key -> entry {tid, value}, NoEntry when absent
  timers,     \* the armed timers: {tid, key}
  promises,   \* the promises the producers returned: key and state
  returned,   \* what the last getOrSet returned, and whether fn was called
  lastSet,    \* per key the value of the last set, NoValue after a removal
  history,    \* the kinds of operations that have happened
  lastOp      \* the last method call: name, key, number

caVars == <<cache, timers, promises, returned, lastSet, history, lastOp>>

\* Part E: one call of getURLVideoID, getVideoID or validateURL
VARIABLES
  urInput,     \* the string given to the function
  urCall,      \* the function called, "none" before the call
  urResult     \* what the call returned or threw

urVars == <<urInput, urCall, urResult>>

\* Part F: the extractions of the player scripts made by one process
VARIABLES
  decipherWarning,    \* let decipherWarning
  nTransformWarning,  \* let nTransformWarning
  warnings,           \* number of warnings logged, by fragment type
  extractions,        \* number of calls of extractFunctions so far
  sxBody,             \* the body given to the last call
  sxResult            \* what the last call returned, or that it threw

sxVars == <<decipherWarning, nTransformWarning, warnings, extractions,
            sxBody, sxResult>>

\* Part G: the enrichment of one format of info.formats by getInfo
VARIABLES
  enFormat,    \* the format as parsed from the response
  enInfo,      \* FORMATS[format.itag], NoFormatInfo for undefined
  enResult     \* the enriched format, Unenriched before

enVars == <<enFormat, enInfo, enResult>>

\* Part H: concurrent resolutions and the cookie jar of the default agent
VARIABLES
  agOptions,   \* per resolution: the options as passed in (explicit agent
               \* or none, and the cookies of the cookie header)
  agAgent,     \* per resolution: options.agent, "" while not set
  jar,         \* the cookies in the jar of AGENT.defaultAgent
  agPc,        \* per resolution: where getInfo is
  agRequests   \* the requests sent: resolution, kind and Cookie header

agVars == <<agOptions, agAgent, jar, agPc, agRequests>>

\* default dlChunkSize
DefaultChunkSize == 1024 * 1024 * 10

OptNat(max) == {None} \cup (0..max)

RangeOptions ==
  {[has |-> FALSE, start |-> None, end |-> None]} \cup
  [has : {TRUE}, start : OptNat(MaxStart), end : OptNat(MaxLen)]

Formats ==
  [contentLength : 1..MaxLen, hasAudio : BOOLEAN, hasVideo : BOOLEAN,
   isHLS : BOOLEAN]

\* const dlChunkSize = typeof options.dlChunkSize === 'number' ? ... : 10MB
dlChunkSize == IF options.dlChunkSize # None THEN options.dlChunkSize
               ELSE DefaultChunkSize

rangeEnd == options.range.end

\* const shouldBeChunked = dlChunkSize !== 0 && (!hasAudio || !hasVideo)
shouldBeChunked ==
  /\ ~format.isHLS
  /\ dlChunkSize # 0
  /\ (~format.hasAudio \/ ~format.hasVideo)

\* contentLength as computed before the first chunk
InitialContentLength ==
  IF options.range.has
  THEN (IF Truthy(rangeEnd) THEN rangeEnd + 1 ELSE format.contentLength)
         - OrElse(options.range.start, 0)
  ELSE format.contentLength

\* the two adjustments of `end` at the top of getNextChunk
ClampEnd(e, cl) ==
  LET e1 == IF ~Truthy(rangeEnd) /\ e >= cl THEN 0 ELSE e
  IN  IF Truthy(rangeEnd) /\ e1 > rangeEnd THEN rangeEnd ELSE e1

\* shouldEnd = !end || end === rangeEnd
ShouldEndOf(e) == e = 0 \/ e = rangeEnd

\* Range: `bytes=${start}-${end !== undefined && end !== 0 ? end : ''}`
RangeHeader(s, e) == [s |-> s, e |-> IF e # 0 THEN e ELSE None]

\* Range header of the single, unchunked request,
\* `bytes=${range.start || '0'}-${range.end || ''}`; without a Range header
\* the whole content is requested
SingleRange ==
  IF options.range.start # None \/ options.range.end # None
  THEN [s |-> OrElse(options.range.start, 0),
        e |-> IF Truthy(options.range.end) THEN options.range.end ELSE None]
  ELSE [s |-> 0, e |-> None]

\* a request object: its Range header, the `end` flag of its pipe, its state
\* and the offset of the next byte it will emit
NewReq(kind, hdr, pipeEnd) ==
  [kind |-> kind, s |-> hdr.s, e |-> hdr.e, pipeEnd |-> pipeEnd,
   state |-> "open", pos |-> hdr.s]

\* last byte the server will serve for a request
LastByte(r) ==
  IF r.e = None \/ r.e > format.contentLength - 1
  THEN format.contentLength - 1 ELSE r.e

\* the server cannot serve a range that starts beyond the content or that
\* is inverted
Unsatisfiable(r) ==
  \/ r.s >= format.contentLength
  \/ (r.e # None /\ r.e < r.s)

req == reqs[Len(reqs)]
HasReq == Len(reqs) > 0
ReqOpen == HasReq /\ req.state = "open"

\* the guard at the top of getNextChunk: if (stream.destroyed) return
GetNextChunkRuns(d) == ~d

\* if (stream.destroyed) return, right after stream.emit('info', ...)
ReturnsAfterInfoM(d) == FALSE
ReturnsAfterInfo(d) == d

\* the event of the chunk request on which the continuation is registered
NextChunkEventM == "data"
NextChunkEvent == "end"

\* stream._destroy as installed by downloadFromInfoCallback: req.destroy()
DestroyReqM(rs) == rs
DestroyReq(rs) ==
  IF Len(rs) > 0 /\ rs[Len(rs)].state = "open"
  THEN [rs EXCEPT ![Len(rs)].state = "aborted"]
  ELSE rs

\* effect of stream.destroy() on the requests, by the installed _destroy
DestroyEffect(hook, rs) == IF hook = "download" THEN DestroyReq(rs) ELSE rs

\* getNextChunk(): the closure variables after the call, entered with
\* start = s and end = e0
GetNextChunk(d, s, e0, se, cl, rs) ==
  IF ~GetNextChunkRuns(d)
  THEN [start |-> s, end |-> e0, shouldEnd |-> se, reqs |-> rs]
  ELSE LET e == ClampEnd(e0, cl) IN
       [start |-> s, end |-> e, shouldEnd |-> ShouldEndOf(e),
        reqs |-> Append(rs, NewReq("chunk", RangeHeader(s, e),
                                   ShouldEndOf(e)))]

\* the continuation registered on the chunk request:
\*   if (stream.destroyed) return;
\*   if (end && end !== rangeEnd) { start = end + 1; end += dlChunkSize;
\*                                  getNextChunk(); }
Continuation(d, s, e, se, cl, rs) ==
  IF ~d /\ e # 0 /\ e # rangeEnd
  THEN GetNextChunk(d, e + 1, e + dlChunkSize, se, cl, rs)
  ELSE [start |-> s, end |-> e, shouldEnd |-> se, reqs |-> rs]

\* ytdl(link, options) has returned the stream made by createStream and
\* getInfo is pending
DlStart ==
  /\ phase = "resolving"
  /\ destroyed = FALSE
  /\ destroyHook = "create"
  /\ start = 0
  /\ end = 0
  /\ shouldEnd = TRUE
  /\ contentLength = None
  /\ downloaded = 0
  /\ reqs = <<>>
  /\ out = <<>>
  /\ progress = 0
  /\ streamEnded = 0
  /\ errors = 0

DlInit ==
  /\ options \in [range : RangeOptions, dlChunkSize : OptNat(MaxChunk)]
  /\ format \in Formats
  /\ DlStart

\* the downloader when another part of the program is examined
DlIdle ==
  /\ options = [range |-> [has |-> FALSE, start |-> None, end |-> None],
                dlChunkSize |-> None]
  /\ format = [contentLength |-> 1, hasAudio |-> TRUE, hasVideo |-> TRUE,
               isHLS |-> FALSE]
  /\ DlStart

\* getInfo rejected, or playError / no formats / chooseFormat gave an error:
\* the error is emitted on the stream and nothing is requested
InfoError ==
  /\ phase = "resolving"
  /\ phase' = "errored"
  /\ errors' = errors + 1
  /\ UNCHANGED <<options, format, destroyed, destroyHook, start, end,
                 shouldEnd, contentLength, downloaded, reqs, out, progress,
                 streamEnded>>
  /\ UNCHANGED <<cfVars, giVars, caVars, urVars, sxVars, enVars, agVars>>

\* downloadFromInfoCallback with a playable info and a chosen format;
\* a listener of 'info' may destroy the stream
DownloadFromInfoCallback ==
  /\ phase = "resolving"
  /\ phase' = "downloading"
  /\ \E listenerDestroys \in BOOLEAN :
       /\ destroyed' = (destroyed \/ listenerDestroys)
       /\ IF ReturnsAfterInfo(destroyed')
          THEN UNCHANGED <<destroyHook, start, end, shouldEnd,
                           contentLength, reqs>>
          ELSE /\ destroyHook' = "download"
               /\ IF format.isHLS
                  THEN /\ reqs' = Append(reqs, NewReq("m3u8",
                                           [s |-> 0, e |-> None], TRUE))
                       /\ UNCHANGED <<start, end, shouldEnd, contentLength>>
                  ELSE IF shouldBeChunked
                  THEN LET s0 == OrElse(options.range.start, 0)
                           n == GetNextChunk(destroyed', s0,
                                             s0 + dlChunkSize, shouldEnd,
                                             InitialContentLength, reqs)
                       IN /\ contentLength' = InitialContentLength
                          /\ start' = n.start
                          /\ end' = n.end
                          /\ shouldEnd' = n.shouldEnd
                          /\ reqs' = n.reqs
                  ELSE /\ reqs' = Append(reqs,
                                         NewReq("single", SingleRange, TRUE))
                       /\ UNCHANGED <<start, end, shouldEnd, contentLength>>
  /\ UNCHANGED <<options, format, downloaded, out, progress, streamEnded,
                 errors>>
  /\ UNCHANGED <<cfVars, giVars, caVars, urVars, sxVars, enVars, agVars>>

\* request i emits 'data' with one byte (one segment for a manifest):
\* ondata runs first and emits 'progress', then the pipe writes the byte to
\* the stream; a 'progress' listener may destroy the stream in between, and
\* a write to a destroyed stream delivers nothing
ReqData(i) ==
  /\ phase = "downloading"
  /\ reqs[i].state = "open"
  /\ ~Unsatisfiable(reqs[i])
  /\ reqs[i].pos <= LastByte(reqs[i])
  /\ downloaded' = IF reqs[i].kind = "m3u8" THEN downloaded
                   ELSE downloaded + 1
  /\ progress' = progress + 1
  /\ \E listenerDestroys \in BOOLEAN :
       LET d == destroyed \/ listenerDestroys
           rs1 == [reqs EXCEPT ![i].pos = @ + 1]
           rs2 == IF listenerDestroys /\ ~destroyed
                  THEN DestroyEffect(destroyHook, rs1) ELSE rs1
           n == IF reqs[i].kind = "chunk" /\ NextChunkEvent = "data"
                THEN Continuation(d, start, end, shouldEnd, contentLength,
                                  rs2)
                ELSE [start |-> start, end |-> end, shouldEnd |-> shouldEnd,
                      reqs |-> rs2]
       IN /\ destroyed' = d
          /\ out' = IF d THEN out ELSE Append(out, reqs[i].pos)
          /\ start' = n.start
          /\ end' = n.end
          /\ shouldEnd' = n.shouldEnd
          /\ reqs' = n.reqs
  /\ UNCHANGED <<options, format, phase, destroyHook, contentLength,
                 streamEnded, errors>>
  /\ UNCHANGED <<cfVars, giVars, caVars, urVars, sxVars, enVars, agVars>>

\* request i has emitted all its bytes and emits 'end': a pipe made with
\* end = true ends the output stream, and the continuation of a chunk
\* request runs
ReqEnd(i) ==
  /\ phase = "downloading"
  /\ reqs[i].state = "open"
  /\ ~Unsatisfiable(reqs[i])
  /\ reqs[i].pos > LastByte(reqs[i])
  /\ streamEnded' = IF reqs[i].pipeEnd THEN streamEnded + 1 ELSE streamEnded
  /\ LET rs1 == [reqs EXCEPT ![i].state = "ended"]
         n == IF reqs[i].kind = "chunk" /\ NextChunkEvent = "end"
              THEN Continuation(destroyed, start, end, shouldEnd,
                                contentLength, rs1)
              ELSE [start |-> start, end |-> end, shouldEnd |-> shouldEnd,
                    reqs |-> rs1]
     IN /\ start' = n.start
        /\ end' = n.end
        /\ shouldEnd' = n.shouldEnd
        /\ reqs' = n.reqs
  /\ UNCHANGED <<options, format, phase, destroyed, destroyHook,
                 contentLength, downloaded, out, progress, errors>>
  /\ UNCHANGED <<cfVars, giVars, caVars, urVars, sxVars, enVars, agVars>>

\* request i fails (the range cannot be served, or the connection is lost
\* for good): 'error' is forwarded to the stream, 'end' is never emitted
ReqError(i) ==
  /\ phase = "downloading"
  /\ reqs[i].state = "open"
  /\ reqs' = [reqs EXCEPT ![i].state = "errored"]
  /\ errors' = errors + 1
  /\ UNCHANGED <<options, format, phase, destroyed, destroyHook, start, end,
                 shouldEnd, contentLength, downloaded, out, progress,
                 streamEnded>>
  /\ UNCHANGED <<cfVars, giVars, caVars, urVars, sxVars, enVars, agVars>>

\* the caller destroys the stream: the installed _destroy runs once
Destroy ==
  /\ ~destroyed
  /\ destroyed' = TRUE
  /\ reqs' = DestroyEffect(destroyHook, reqs)
  /\ UNCHANGED <<options, format, phase, destroyHook, start, end, shouldEnd,
                 contentLength, downloaded, out, progress, streamEnded,
                 errors>>
  /\ UNCHANGED <<cfVars, giVars, caVars, urVars, sxVars, enVars, agVars>>

DlNext ==
  \/ InfoError
  \/ DownloadFromInfoCallback
  \/ \E i \in DOMAIN reqs : ReqData(i)
  \/ \E i \in DOMAIN reqs : ReqEnd(i)
  \/ \E i \in DOMAIN reqs : ReqError(i)
  \/ Destroy

\* the downloader against a server that serves every request it can and
\* a caller that never destroys the stream: getInfo resolves, a request
\* fails only when its range cannot be served
ServedInfo == DownloadFromInfoCallback /\ ~destroyed'
ServedData(i) == ReqData(i) /\ ~destroyed'
ServedEnd(i) == ReqEnd(i) /\ ~destroyed'
ServedError(i) == Unsatisfiable(reqs[i]) /\ ReqError(i)

ServedNext ==
  \/ ServedInfo
  \/ \E i \in DOMAIN reqs : ServedData(i)
  \/ \E i \in DOMAIN reqs : ServedEnd(i)
  \/ \E i \in DOMAIN reqs : ServedError(i)

\* ------------------------------------------------------------------------
\* Properties of the downloader
\* ------------------------------------------------------------------------
RequestedStart == IF options.range.start = None THEN 0 ELSE options.range.start

\* last byte a request asks for (an open-ended Range asks up to the end of
\* the content)
LastRequested(r) == IF r.e = None THEN format.contentLength - 1 ELSE r.e

\* C1: the Range requests of a chunked download are contiguous: the first
\* starts at the requested start (0 by default), each next one starts one
\* byte after the end of the previous one, and the chunk that ends the
\* stream ends at the requested end, or at the end of the content when no
\* end was requested.
C1_ChunksCoverRequestedRange ==
  \A i \in DOMAIN reqs :
    reqs[i].kind = "chunk" =>
      /\ (i = 1 => reqs[i].s = RequestedStart)
      /\ (i > 1 => reqs[i - 1].e # None /\ reqs[i].s = reqs[i - 1].e + 1)
      /\ (reqs[i].pipeEnd =>
            LastRequested(reqs[i]) =
              (IF rangeEnd # None THEN rangeEnd
               ELSE format.contentLength - 1))

\* the same statement for the callers that pass no end or an end >= 1
C1_HoldsForNonZeroEnd ==
  rangeEnd # 0 => C1_ChunksCoverRequestedRange

C1_Witness ==
  /\ Len(reqs) >= 3
  /\ req.kind = "chunk"
  /\ req.pipeEnd
  /\ rangeEnd # None

InFlight == {i \in DOMAIN reqs : reqs[i].state = "open"}

\* C2: at most one chunk request is in flight at any time, chunk n+1 is
\* requested only after chunk n has emitted 'end', and the bytes reach the
\* output stream in increasing offset order.
C2_ChunksSequential ==
  /\ Cardinality(InFlight) <= 1
  /\ \A i \in DOMAIN reqs :
       (i > 1 /\ reqs[i].kind = "chunk") => reqs[i - 1].state = "ended"
  /\ \A j, k \in DOMAIN out : j < k => out[j] < out[k]

C2_Witness ==
  /\ Len(reqs) >= 3
  /\ req.kind = "chunk"
  /\ req.state = "ended"
  /\ Len(out) >= 3

\* C3: once the stream is destroyed, whatever it was doing, the request in
\* flight at that moment is aborted, no request is in flight any more and no
\* new request is ever issued.
C3_DestroyEffective ==
  [][ /\ (destroyed => destroyed')
      /\ (destroyed => Len(reqs') = Len(reqs))
      /\ (destroyed' =>
            \A i \in DOMAIN reqs' : reqs'[i].state # "open")
      /\ ((~destroyed /\ destroyed') =>
            \A i \in DOMAIN reqs :
              reqs[i].state = "open" => reqs'[i].state = "aborted")
    ]_dlVars

\* the stream was destroyed while its second or a later chunk was in flight
C3_Witness ==
  /\ destroyed
  /\ Len(reqs) >= 2
  /\ req.state = "aborted"
  /\ req.pos > req.s

\* the stream was destroyed while info was being resolved, and
\* downloadFromInfoCallback has run since
C3_WitnessResolving ==
  /\ destroyed
  /\ phase = "downloading"
  /\ reqs = <<>>

\* C4: after the stream has been destroyed no 'progress' event is emitted
\* on it and no data is written to it.
C4_SilentAfterDestroy ==
  [][destroyed => (progress' = progress /\ out' = out)]_dlVars

\* destroyed in the middle of a request that had more bytes to deliver
C4_Witness ==
  /\ destroyed
  /\ HasReq
  /\ req.state = "aborted"
  /\ progress >= 1
  /\ req.pos <= LastByte(req)

\* a chunked download of a content from a start offset inside it, with no
\* requested end
ChunkedFromStart ==
  /\ shouldBeChunked
  /\ dlChunkSize >= 1
  /\ rangeEnd = None
  /\ RequestedStart < format.contentLength

\* no request starts at or beyond the content length
NoRequestBeyondContent ==
  \A i \in DOMAIN reqs : reqs[i].s < format.contentLength

\* the stream was ended at most once, and by the request that delivered
\* the last byte of the content
EndedByLastByte ==
  /\ streamEnded <= 1
  /\ streamEnded = 1 =>
       /\ out # <<>>
       /\ out[Len(out)] = format.contentLength - 1
       /\ req.pipeEnd /\ req.state = "ended"

\* C28: a chunked download always finishes: for every content length,
\* chunk size and start offset, against a server that serves every Range
\* request starting inside the content, no request starts at or beyond the
\* content length and the output stream is eventually ended, exactly
\* once, by the chunk that delivers the last byte.
C28_ChunkedDownloadFinishes ==
  /\ [](ChunkedFromStart => (NoRequestBeyondContent /\ EndedByLastByte))
  /\ (ChunkedFromStart ~> streamEnded = 1)

\* a chunk ends exactly at the last byte of the content: the download
\* starts at 0 and the content length minus one is a multiple of the
\* chunk size
ChunkEndsAtLastByte ==
  /\ RequestedStart = 0
  /\ format.contentLength - 1 >= dlChunkSize
  /\ (format.contentLength - 1) % dlChunkSize = 0

\* the part of C28 that the code keeps: the same when no chunk ends
\* exactly at the last byte of the content; and the stream is never ended
\* twice nor before the last byte
C28_FinishesUnlessChunkEndsAtLastByte ==
  /\ []((ChunkedFromStart /\ ~ChunkEndsAtLastByte)
          => (NoRequestBeyondContent /\ EndedByLastByte))
  /\ ((ChunkedFromStart /\ ~ChunkEndsAtLastByte) ~> streamEnded = 1)
  /\ [](ChunkedFromStart => EndedByLastByte)

\* all the bytes were delivered by chunks that do not end the stream, the
\* next request started at the content length and failed: the stream was
\* not ended
C28_RequestedBeyondContent ==
  /\ ChunkedFromStart
  /\ Len(out) = format.contentLength
  /\ req.s = format.contentLength
  /\ req.state = "errored"
  /\ streamEnded = 0

\* a download in several chunks has ended the stream
C28_EndedAfterChunks ==
  /\ ChunkedFromStart
  /\ Len(reqs) >= 2
  /\ streamEnded = 1

\* ========================================================================
\* Part B: format-utils.ts, chooseFormat
\* ========================================================================
MaxFormats == 3

audioEncodingRanks == <<"mp4a", "mp3", "vorbis", "aac", "opus", "flac">>
videoEncodingRanks ==
  <<"mp4v", "avc1", "Sorenson H.283", "MPEG-4 Visual", "VP8", "VP9", "H.264">>

\* the encodings (of the two rank lists) that occur in a codecs string
CodecsIncludes(codecs) ==
  CASE codecs = "avc1.42001E, mp4a.40.2" -> {"avc1", "mp4a"}
    [] codecs = "avc1.640028" -> {"avc1"}
    [] codecs = "vp9" -> {}
    [] codecs = "mp4a.40.2" -> {"mp4a"}
    [] codecs = "opus" -> {"opus"}
    [] OTHER -> {}

\* ranks.findIndex(enc => codecs includes enc): 0-based, -1 when none
FindIndex(ranks, codecs) ==
  LET hits == {i \in DOMAIN ranks : ranks[i] \in CodecsIncludes(codecs)}
  IN  IF hits = {} THEN -1
      ELSE (CHOOSE i \in hits : \A j \in hits : i <= j) - 1

\* parseInt(label): the leading decimal digits of a quality label
ParseInt(label) ==
  CASE label = "0" -> 0
    [] label = "144p" -> 144
    [] label = "360p" -> 360
    [] label = "720p" -> 720
    [] label = "720p60" -> 720
    [] label = "1080p" -> 1080
    [] label = "2160p" -> 2160

\* a format: "" stands for a missing string, None for a missing number
Fmt(itag, url, hasVideo, hasAudio, qualityLabel, bitrate, audioBitrate,
    codecs, isHLS, isLive) ==
  [itag |-> itag, url |-> url, hasVideo |-> hasVideo, hasAudio |-> hasAudio,
   qualityLabel |-> qualityLabel, bitrate |-> bitrate,
   audioBitrate |-> audioBitrate, codecs |-> codecs, isHLS |-> isHLS,
   isDashMPD |-> FALSE, isLive |-> isLive, contentLength |-> "1000"]

FormatPool ==
  { Fmt(18, "u18", TRUE, TRUE, "360p", 500, 96, "avc1.42001E, mp4a.40.2",
        FALSE, FALSE),
    Fmt(22, "u22", TRUE, TRUE, "720p", 1500, 128, "avc1.42001E, mp4a.40.2",
        FALSE, FALSE),
    Fmt(137, "u137", TRUE, FALSE, "1080p", 4000, None, "avc1.640028",
        FALSE, FALSE),
    Fmt(248, "u248", TRUE, FALSE, "1080p", 4000, None, "vp9", FALSE, TRUE),
    Fmt(140, "u140", FALSE, TRUE, "", 130, 128, "mp4a.40.2", FALSE, FALSE),
    Fmt(251, "u251", FALSE, TRUE, "", 140, 160, "opus", FALSE, FALSE),
    Fmt(95, "u95", TRUE, TRUE, "720p60", 1500, 128,
        "avc1.42001E, mp4a.40.2", TRUE, TRUE),
    Fmt(139, "", FALSE, TRUE, "", 50, 48, "mp4a.40.2", FALSE, FALSE) }

\* lists of distinct formats of the pool, up to MaxFormats long
RECURSIVE ListsOf(_)
ListsOf(n) ==
  IF n = 0 THEN {<<>>}
  ELSE LET shorter == ListsOf(n - 1) IN
       shorter \cup
       {Append(l, f) : l \in {x \in shorter : Len(x) = n - 1},
                       f \in FormatPool}

FormatLists ==
  {l \in ListsOf(MaxFormats) : \A i, j \in DOMAIN l : i # j => l[i] # l[j]}

\* options.quality: undefined, a string (s), a number (n) or an array of
\* numbers (a)
Quality(k, str, num, arr) == [k |-> k, s |-> str, n |-> num, a |-> arr]
QUndefined == Quality("undef", "", 0, <<>>)
QString(m) == Quality("str", m, 0, <<>>)

Qualities ==
  {QUndefined} \cup
  {QString(m) :
     m \in {"highest", "lowest", "highestaudio", "lowestaudio",
            "highestvideo", "lowestvideo"}} \cup
  {Quality("num", "", n, <<>>) : n \in {0, 18, 140, 999}} \cup
  {Quality("arr", "", 0, a) : a \in {<<999, 140, 18>>, <<137, 22>>}}

\* options.filter: undefined, one of the named filters, an unsupported
\* name, or a predicate (given by the itags it accepts)
NamedFilters ==
  {"audioandvideo", "videoandaudio", "video", "videoonly", "audio",
   "audioonly"}

Filters ==
  {[k |-> "undef", name |-> "", accepts |-> {}]} \cup
  {[k |-> "str", name |-> n, accepts |-> {}] :
     n \in NamedFilters \cup {"bogus"}} \cup
  {[k |-> "fn", name |-> "", accepts |-> {18, 22, 137, 140, 139}]}

\* options.format: undefined, or a format object of the caller's own
NoFormat == Fmt(0, "", FALSE, FALSE, "", None, None, "", FALSE, FALSE)
CallerFormats ==
  { NoFormat,
    Fmt(299, "u299", TRUE, FALSE, "1080p", 6000, None, "avc1.640028",
        FALSE, FALSE),
    Fmt(298, "", TRUE, FALSE, "720p", 3000, None, "avc1.640028",
        FALSE, FALSE) }

\* the sort keys used by the three comparators
Key(name, f) ==
  CASE name = "isHLS" -> IF f.isHLS THEN 1 ELSE 0
    [] name = "isDashMPD" -> IF f.isDashMPD THEN 1 ELSE 0
    [] name = "contentLength" ->
         IF f.contentLength # "" /\ f.contentLength # "0" THEN 1 ELSE 0
    [] name = "hasVideoAndAudio" ->
         IF f.hasVideo /\ f.hasAudio THEN 1 ELSE 0
    [] name = "hasVideo" -> IF f.hasVideo THEN 1 ELSE 0
    [] name = "qualityLabel" ->
         ParseInt(IF f.qualityLabel = "" THEN "0" ELSE f.qualityLabel)
    [] name = "getVideoBitrate" -> OrElse(f.bitrate, 0)
    [] name = "getAudioBitrate" -> OrElse(f.audioBitrate, 0)
    [] name = "getVideoEncodingRank" ->
         FindIndex(videoEncodingRanks, f.codecs)
    [] name = "getAudioEncodingRank" ->
         FindIndex(audioEncodingRanks, f.codecs)

\* sortFormatsBy: the first non-zero fn(b) - fn(a), else 0
RECURSIVE SortFormatsByFrom(_, _, _, _)
SortFormatsByFrom(a, b, sortBy, i) ==
  IF i > Len(sortBy) THEN 0
  ELSE LET res == Key(sortBy[i], b) - Key(sortBy[i], a) IN
       IF res # 0 THEN res ELSE SortFormatsByFrom(a, b, sortBy, i + 1)

sortFormatsByM(a, b, sortBy) ==
  IF SortFormatsByFrom(a, b, sortBy, 1) >= 0 THEN 1 ELSE -1
sortFormatsBy(a, b, sortBy) == SortFormatsByFrom(a, b, sortBy, 1)

VideoKeys == <<"qualityLabel", "getVideoBitrate", "getVideoEncodingRank">>
AudioKeys == <<"getAudioBitrate", "getAudioEncodingRank">>
AllKeys ==
  <<"isHLS", "isDashMPD", "contentLength", "hasVideoAndAudio", "hasVideo",
    "qualityLabel", "getVideoBitrate", "getAudioBitrate",
    "getVideoEncodingRank", "getAudioEncodingRank">>

sortFormatsByVideo(a, b) == sortFormatsBy(a, b, VideoKeys)
sortFormatsByAudio(a, b) == sortFormatsBy(a, b, AudioKeys)
sortFormats(a, b) == sortFormatsBy(a, b, AllKeys)

\* Array.prototype.sort with the comparator sortFormatsBy(., ., sortBy):
\* a stable sort, here by insertion
RECURSIVE InsertSorted(_, _, _)
InsertSorted(sorted, f, sortBy) ==
  IF sorted = <<>> THEN <<f>>
  ELSE IF sortFormatsBy(sorted[Len(sorted)], f, sortBy) <= 0
       THEN Append(sorted, f)
       ELSE Append(InsertSorted(SubSeq(sorted, 1, Len(sorted) - 1), f,
                                sortBy),
                   sorted[Len(sorted)])

RECURSIVE SortFrom(_, _, _)
SortFrom(l, sortBy, n) ==
  IF n = 0 THEN <<>>
  ELSE InsertSorted(SortFrom(l, sortBy, n - 1), l[n], sortBy)

Sort(l, sortBy) == SortFrom(l, sortBy, Len(l))

\* Array.prototype.filter
Filter(l, Test(_)) == SelectSeq(l, Test)

\* Array.prototype.find: the first element passing the test, or NoFormat
\* for undefined
Find(l, Test(_)) ==
  LET hits == SelectSeq(l, Test)
  IN  IF hits = <<>> THEN NoFormat ELSE hits[1]

\* filterFormats for a supported filter: the predicate of the filter
FilterFn(filter, f) ==
  CASE filter.k = "fn" -> f.itag \in filter.accepts
    [] filter.name \in {"videoandaudio", "audioandvideo"} ->
         f.hasVideo /\ f.hasAudio
    [] filter.name = "video" -> f.hasVideo
    [] filter.name = "videoonly" -> f.hasVideo /\ ~f.hasAudio
    [] filter.name = "audio" -> f.hasAudio
    [] filter.name = "audioonly" -> f.hasAudio /\ ~f.hasVideo
    [] OTHER -> FALSE

FilterSupported(filter) == filter.k = "fn" \/ filter.name \in NamedFilters

filterFormats(formats, filter) ==
  LET Test(f) == f.url # "" /\ FilterFn(filter, f) IN Filter(formats, Test)

NamedFilter(n) == [k |-> "str", name |-> n, accepts |-> {}]

\* getFormatByQuality
GetFormat(itag, formats) ==
  LET Test(f) == f.itag = itag IN Find(formats, Test)

getFormatByQuality(quality, formats) ==
  IF quality.k = "arr"
  THEN LET found == {i \in DOMAIN quality.a :
                       GetFormat(quality.a[i], formats) # NoFormat}
           first == CHOOSE i \in found : \A j \in found : i <= j
       IN  IF found # {} /\ quality.a[first] # 0
           THEN GetFormat(quality.a[first], formats)
           ELSE NoFormat
  ELSE IF quality.k = "num" THEN GetFormat(quality.n, formats)
  ELSE NoFormat

\* const quality = options.quality || 'highest'
QualityOrHighest(q) ==
  IF q.k = "undef" \/ (q.k = "num" /\ q.n = 0) \/ (q.k = "str" /\ q.s = "")
  THEN QString("highest")
  ELSE q

\* parseInt(f.qualityLabel || '0') || 0
VideoQuality(f) ==
  ParseInt(IF f.qualityLabel = "" THEN "0" ELSE f.qualityLabel)

Min(S) == CHOOSE x \in S : \A y \in S : x <= y

\* the format picked by the switch on quality (NoFormat for undefined)
PickByQuality(quality, formats) ==
  IF quality.k # "str" THEN getFormatByQuality(quality, formats)
  ELSE
  CASE quality.s = "highest" ->
         IF formats = <<>> THEN NoFormat ELSE formats[1]
    [] quality.s = "lowest" ->
         IF formats = <<>> THEN NoFormat ELSE formats[Len(formats)]
    [] quality.s = "highestaudio" ->
         LET fs == Sort(filterFormats(formats, NamedFilter("audio")),
                        AudioKeys)
             Tied(f) == sortFormatsByAudio(fs[1], f) = 0
             best == Filter(fs, Tied)
             worstVideoQuality ==
               Min({VideoQuality(best[i]) : i \in DOMAIN best})
             Worst(f) == VideoQuality(f) = worstVideoQuality
         IN  IF fs = <<>> THEN NoFormat ELSE Find(best, Worst)
    [] quality.s = "lowestaudio" ->
         LET fs == Sort(filterFormats(formats, NamedFilter("audio")),
                        AudioKeys)
         IN  IF fs = <<>> THEN NoFormat ELSE fs[Len(fs)]
    [] quality.s = "highestvideo" ->
         LET fs == Sort(filterFormats(formats, NamedFilter("video")),
                        VideoKeys)
             Tied(f) == sortFormatsByVideo(fs[1], f) = 0
             best == Filter(fs, Tied)
             worstAudioQuality ==
               Min({OrElse(best[i].audioBitrate, 0) : i \in DOMAIN best})
             Worst(f) == OrElse(f.audioBitrate, 0) = worstAudioQuality
         IN  IF fs = <<>> THEN NoFormat ELSE Find(best, Worst)
    [] quality.s = "lowestvideo" ->
         LET fs == Sort(filterFormats(formats, NamedFilter("video")),
                        VideoKeys)
         IN  IF fs = <<>> THEN NoFormat ELSE fs[Len(fs)]
    [] OTHER -> NoFormat

Returned(f) == [kind |-> "return", format |-> f, error |-> "",
                quality |-> QUndefined]
Thrown(msg, q) == [kind |-> "throw", format |-> NoFormat, error |-> msg,
                   quality |-> q]

\* the error of the final `if (!format)`
NoSuchFormat(quality) == Thrown("No such format found", quality)

\* if (!format) after the switch
MissingM(f) == FALSE
Missing(f) == f = NoFormat

\* the candidates: the formats left by options.filter and, when a HLS
\* format is among them, by dropping the live formats that are not HLS
Candidates(formats, opts) ==
  LET fs1 == IF opts.filter.k # "undef"
             THEN filterFormats(formats, opts.filter) ELSE formats
      HLSOrNotLive(f) == f.isHLS \/ ~f.isLive
  IN  IF \E i \in DOMAIN fs1 : fs1[i].isHLS
      THEN Filter(fs1, HLSOrNotLive) ELSE fs1

chooseFormat(formats, opts) ==
  IF opts.format # NoFormat
  THEN IF opts.format.url = ""
       THEN Thrown("Invalid format given",
                   QUndefined)
       ELSE Returned(opts.format)
  ELSE IF opts.filter.k # "undef" /\ ~FilterSupported(opts.filter)
  THEN Thrown("Given filter is not supported", QUndefined)
  ELSE
    LET quality == QualityOrHighest(opts.quality)
        f == PickByQuality(quality, Candidates(formats, opts))
    IN  IF Missing(f) THEN NoSuchFormat(quality) ELSE Returned(f)

Pending == [kind |-> "pending", format |-> NoFormat, error |-> "",
            quality |-> QUndefined]

\* the two formats of the 'highestaudio' scenario: itag 18 with video and
\* audio, itag 140 with audio only, of the same audio bitrate and encoding;
\* with or without a url, and itag 18 with or without a qualityLabel
Scenario18(url, qualityLabel, audioBitrate) ==
  Fmt(18, url, TRUE, TRUE, qualityLabel, None, audioBitrate,
      "avc1.42001E, mp4a.40.2", FALSE, FALSE)
Scenario140(url, audioBitrate) ==
  Fmt(140, url, FALSE, TRUE, "", None, audioBitrate, "mp4a.40.2", FALSE,
      FALSE)

ScenarioLists ==
  UNION { { << Scenario18(IF urls THEN "u18" ELSE "", label, abr),
               Scenario140(IF urls THEN "u140" ELSE "", abr) >>,
            << Scenario140(IF urls THEN "u140" ELSE "", abr),
               Scenario18(IF urls THEN "u18" ELSE "", label, abr) >> } :
          urls \in BOOLEAN, label \in {"", "360p"}, abr \in {None, 128} }

\* two formats that tie on the video keys and differ in audio bitrate:
\* itag 22 with video and audio, itag 136 with video only
Tie136 ==
  Fmt(136, "u136", TRUE, FALSE, "720p", 1500, None, "avc1.640028", FALSE,
      FALSE)
Tie22 ==
  Fmt(22, "u22", TRUE, TRUE, "720p", 1500, 128, "avc1.42001E, mp4a.40.2",
      FALSE, FALSE)
TieLists == {<<Tie136, Tie22>>, <<Tie22, Tie136>>}

CfInit ==
  /\ cfFormats \in FormatLists \cup ScenarioLists \cup TieLists
  /\ cfOptions \in [quality : Qualities, filter : Filters,
                    format : CallerFormats]
  /\ cfResult = Pending
  /\ cfSorted = FALSE

\* one call of chooseFormat(formats, options)
ChooseFormat ==
  /\ cfResult.kind = "pending"
  /\ cfResult' = chooseFormat(cfFormats, cfOptions)
  /\ UNCHANGED <<cfFormats, cfOptions, cfSorted>>
  /\ UNCHANGED <<dlVars, giVars, caVars, urVars, sxVars, enVars, agVars>>

CfNext == ChooseFormat

\* chooseFormat when another part of the program is examined
CfIdle ==
  /\ cfFormats = <<>>
  /\ cfOptions = [quality |-> QUndefined,
                  filter |-> [k |-> "undef", name |-> "", accepts |-> {}],
                  format |-> NoFormat]
  /\ cfResult = Pending
  /\ cfSorted = FALSE

\* a format that sortFormats ranks like itag 18 of the pool
Tie18 ==
  Fmt(43, "u43", TRUE, TRUE, "360p", 500, 96, "avc1.42001E, mp4a.40.2",
      FALSE, FALSE)

\* formats of the kinds the pool lacks: from a DASH manifest, of unknown
\* content length, with neither video nor audio
SortExtras ==
  { Tie18,
    [Fmt(300, "u300", TRUE, TRUE, "144p", 100, 48,
         "avc1.42001E, mp4a.40.2", FALSE, FALSE)
       EXCEPT !.isDashMPD = TRUE],
    [Fmt(133, "u133", TRUE, FALSE, "2160p", 9000, None, "vp9", FALSE,
         FALSE)
       EXCEPT !.contentLength = ""],
    Fmt(17, "u17", FALSE, FALSE, "", 900, None, "", FALSE, FALSE) }

\* the lists given to sort: up to MaxFormats formats of the pool, one of
\* them possibly of SortExtras
SortLists ==
  FormatLists \cup
  {Append(l, f) : l \in {x \in FormatLists : Len(x) < MaxFormats},
                  f \in SortExtras} \cup
  {<<f>> \o l : l \in {x \in FormatLists : Len(x) < MaxFormats},
                f \in SortExtras}

SfInit ==
  /\ cfFormats \in SortLists
  /\ cfOptions = [quality |-> QUndefined,
                  filter |-> [k |-> "undef", name |-> "", accepts |-> {}],
                  format |-> NoFormat]
  /\ cfResult = Pending
  /\ cfSorted = FALSE

\* info.formats.sort(sortFormats): the list is sorted in place
SortFormats ==
  /\ ~cfSorted
  /\ cfFormats' = Sort(cfFormats, AllKeys)
  /\ cfSorted' = TRUE
  /\ UNCHANGED <<cfOptions, cfResult>>
  /\ UNCHANGED <<dlVars, giVars, caVars, urVars, sxVars, enVars, agVars>>

SfNext == SortFormats

InList(f, l) == \E i \in DOMAIN l : l[i] = f

\* C5: for every quality mode, with or without a (supported) filter,
\* chooseFormat returns an element of the list it was given or throws
\* 'No such format found: <quality>' with the requested quality.
C5_ChoosesFromList ==
  (/\ cfResult.kind # "pending"
   /\ cfOptions.format = NoFormat
   /\ (cfOptions.filter.k = "undef" \/ FilterSupported(cfOptions.filter)))
  => \/ /\ cfResult.kind = "return"
        /\ InList(cfResult.format, cfFormats)
     \/ /\ cfResult = NoSuchFormat(QualityOrHighest(cfOptions.quality))

\* a filtered 'highestaudio' choice that returned a format of a list of
\* MaxFormats formats
C5_Witness ==
  /\ cfResult.kind = "return"
  /\ cfOptions.format = NoFormat
  /\ cfOptions.filter.k = "str"
  /\ cfOptions.quality = QString("highestaudio")
  /\ Len(cfFormats) >= 3
  /\ InList(cfResult.format, cfFormats)

\* the same call on a list without a candidate threw
C5_WitnessThrow ==
  /\ cfResult.kind = "throw"
  /\ cfOptions.format = NoFormat
  /\ cfOptions.quality.k = "arr"
  /\ Len(cfFormats) >= 2

\* the sign of a comparator result
Sign(n) == IF n > 0 THEN 1 ELSE IF n < 0 THEN -1 ELSE 0

Reverse(l) == [i \in DOMAIN l |-> l[Len(l) + 1 - i]]

Elements(l) == {l[i] : i \in DOMAIN l}

\* sorting a sorted list changes nothing
Idempotent(l) ==
  Sort(Sort(l, AllKeys), AllKeys) = Sort(l, AllKeys)

\* the comparator on the formats of l: cmp(a, b) and cmp(b, a) have
\* opposite signs, and a before-or-equal b before-or-equal c gives a
\* before-or-equal c
ConsistentOn(l) ==
  /\ \A a, b \in Elements(l) :
       Sign(sortFormats(a, b)) = -Sign(sortFormats(b, a))
  /\ \A a, b, c \in Elements(l) :
       (sortFormats(a, b) <= 0 /\ sortFormats(b, c) <= 0)
         => sortFormats(a, c) <= 0

\* f is strictly preferred to every other format of l
StrictTop(f, l) ==
  \A i \in DOMAIN l : l[i] # f => sortFormats(f, l[i]) < 0

TopIndependentOfOrder(l) ==
  \A i \in DOMAIN l :
    StrictTop(l[i], l) =>
      /\ Sort(l, AllKeys)[1] = l[i]
      /\ Sort(Reverse(l), AllKeys)[1] = l[i]

\* C17: sorting with sortFormats is idempotent, the comparator is a
\* consistent total preorder (opposite signs for swapped arguments,
\* transitive), and when one format is strictly preferred to all others
\* the list and its reversal have the same top element.
C17_SortIsConsistent ==
  /\ Idempotent(cfFormats)
  /\ cfSorted => Sort(cfFormats, AllKeys) = cfFormats
  /\ ConsistentOn(cfFormats)
  /\ TopIndependentOfOrder(cfFormats)

\* a sorted list of MaxFormats formats with two that rank the same
C17_Witness ==
  /\ cfSorted
  /\ Len(cfFormats) = MaxFormats
  /\ \E i, j \in DOMAIN cfFormats :
       i # j /\ sortFormats(cfFormats[i], cfFormats[j]) = 0

\* a sorted list whose first format is strictly preferred to the others
C17_WitnessTop ==
  /\ cfSorted
  /\ Len(cfFormats) = MaxFormats
  /\ StrictTop(cfFormats[1], cfFormats)

\* the keys of the claimed ranking, higher first: not HLS, not DASH,
\* positive content length, stream type (combined 3, video only 2, audio
\* only 1, neither 0), then the numeric keys of sortFormats
RankKey(name, f) ==
  CASE name = "notHLS" -> IF f.isHLS THEN 0 ELSE 1
    [] name = "notDash" -> IF f.isDashMPD THEN 0 ELSE 1
    [] name = "streamType" ->
         IF f.hasVideo /\ f.hasAudio THEN 3
         ELSE IF f.hasVideo THEN 2
         ELSE IF f.hasAudio THEN 1 ELSE 0
    [] OTHER -> Key(name, f)

RankKeys ==
  <<"notHLS", "notDash", "contentLength", "streamType", "qualityLabel",
    "getVideoBitrate", "getAudioBitrate", "getVideoEncodingRank",
    "getAudioEncodingRank">>

\* a precedes b, or ties with it, in the lexicographic order of the keys
RECURSIVE NotAfter(_, _, _, _)
NotAfter(a, b, keys, i) ==
  IF i > Len(keys) THEN TRUE
  ELSE IF RankKey(keys[i], a) # RankKey(keys[i], b)
  THEN RankKey(keys[i], a) > RankKey(keys[i], b)
  ELSE NotAfter(a, b, keys, i + 1)

OrderedBy(l, keys) ==
  \A i, j \in DOMAIN l : i < j => NotAfter(l[i], l[j], keys, 1)

\* C24: sortFormats orders the formats lexicographically by: non-HLS
\* before HLS; non-DASH before DASH; positive content length before
\* unknown; combined before video-only before audio-only before neither;
\* higher quality label, video bitrate, audio bitrate, codec rank first.
C24_RankedByKeyList ==
  cfSorted => OrderedBy(cfFormats, RankKeys)

\* the part of C24 that the code keeps: the order is lexicographic over
\* the keys of sortFormats, the higher value first, which puts HLS
\* before non-HLS, DASH before non-DASH, and tells formats with video
\* from formats without, not audio-only from neither
C24_RankedBySortKeys ==
  cfSorted => OrderedBy(cfFormats, AllKeys)

\* a sorted list with a HLS or DASH format before a progressive one
C24_ManifestFormatFirst ==
  /\ cfSorted
  /\ \E i, j \in DOMAIN cfFormats :
       /\ i < j
       /\ cfFormats[i].isHLS \/ cfFormats[i].isDashMPD
       /\ ~cfFormats[j].isHLS /\ ~cfFormats[j].isDashMPD

\* a sorted list with a format without streams before an audio-only one
C24_NeitherBeforeAudioOnly ==
  /\ cfSorted
  /\ \E i, j \in DOMAIN cfFormats :
       /\ i < j
       /\ ~cfFormats[i].hasVideo /\ ~cfFormats[i].hasAudio
       /\ ~cfFormats[j].hasVideo /\ cfFormats[j].hasAudio

\* the list is the scenario: a format with video and audio (itag 18) and
\* an audio-only format (itag 140) of equal audio quality
IsScenario(l) ==
  /\ Len(l) = 2
  /\ \E i, j \in DOMAIN l :
       /\ l[i].itag = 18 /\ l[i].hasVideo /\ l[i].hasAudio
       /\ l[j].itag = 140 /\ ~l[j].hasVideo /\ l[j].hasAudio
       /\ sortFormatsByAudio(l[i], l[j]) = 0

HighestAudioChosen ==
  /\ cfResult.kind # "pending"
  /\ cfOptions.format = NoFormat
  /\ cfOptions.filter.k = "undef"
  /\ cfOptions.quality = QString("highestaudio")

\* C18: for the list of the scenario, chooseFormat with quality
\* 'highestaudio' returns the audio-only format, itag 140.
C18_ReturnsAudioOnly ==
  (IsScenario(cfFormats) /\ HighestAudioChosen)
    => (cfResult.kind = "return" /\ cfResult.format.itag = 140)

\* the formats are as getInfo lists them: with a url, and with a
\* qualityLabel (a height) when they have video
AsListedByGetInfo(l) ==
  \A i \in DOMAIN l :
    /\ l[i].url # ""
    /\ l[i].hasVideo => Key("qualityLabel", l[i]) > 0

\* the part of C18 that the code keeps: the same for formats as getInfo
\* lists them
C18_HoldsForListedFormats ==
  (IsScenario(cfFormats) /\ AsListedByGetInfo(cfFormats)
     /\ HighestAudioChosen)
    => (cfResult.kind = "return" /\ cfResult.format.itag = 140)

\* the scenario with urls and no qualityLabel: itag 18, first in the
\* list, was returned
C18_ReturnedCombined ==
  /\ IsScenario(cfFormats)
  /\ HighestAudioChosen
  /\ cfFormats[1].url # ""
  /\ cfResult.kind = "return"
  /\ cfResult.format.itag = 18

\* the scenario as written, without urls: chooseFormat threw
C18_ThrewWithoutUrls ==
  /\ IsScenario(cfFormats)
  /\ HighestAudioChosen
  /\ cfFormats[1].url = ""
  /\ cfResult = NoSuchFormat(QString("highestaudio"))

\* chooseFormat returned under one of the quality modes, with no
\* options.format
ChoseBy(modes) ==
  /\ cfResult.kind = "return"
  /\ cfOptions.format = NoFormat
  /\ cfOptions.quality \in {QString(m) : m \in modes}

\* the candidates of the stream type of the mode, their ranking and the
\* other dimension: audio modes rank by sortFormatsByAudio and look at the
\* video quality, video modes rank by sortFormatsByVideo and look at the
\* audio bitrate
IsAudioMode == cfOptions.quality.s \in {"highestaudio", "lowestaudio"}
IsHighestMode == cfOptions.quality.s \in {"highestaudio", "highestvideo"}
OfStreamType ==
  LET l == filterFormats(Candidates(cfFormats, cfOptions),
                         NamedFilter(IF IsAudioMode THEN "audio"
                                     ELSE "video"))
  IN  {l[i] : i \in DOMAIN l}
RankByMode(a, b) ==
  IF IsAudioMode THEN sortFormatsByAudio(a, b) ELSE sortFormatsByVideo(a, b)
OtherDimension(f) ==
  IF IsAudioMode THEN VideoQuality(f) ELSE OrElse(f.audioBitrate, 0)

\* f is of the stream type and no candidate of the type is beyond it in
\* the direction of the mode
AtExtreme(f) ==
  /\ f \in OfStreamType
  /\ IF IsAudioMode THEN f.hasAudio ELSE f.hasVideo
  /\ \A g \in OfStreamType :
       IF IsHighestMode THEN RankByMode(f, g) <= 0 ELSE RankByMode(f, g) >= 0

\* f has the least other dimension of the candidates that tie with it
CheapestOfTies(f) ==
  \A g \in OfStreamType :
    RankByMode(f, g) = 0 => OtherDimension(f) <= OtherDimension(g)

\* C25: under highestaudio, lowestaudio, highestvideo and lowestvideo
\* chooseFormat returns a candidate of the stream type of the mode at the
\* requested extreme of its dimension which, among the candidates tied
\* with it, has the least value of the other dimension, for every order
\* of the list.
C25_ExtremeAndCheapest ==
  ChoseBy({"highestaudio", "lowestaudio", "highestvideo", "lowestvideo"})
    => (AtExtreme(cfResult.format) /\ CheapestOfTies(cfResult.format))

\* the part of C25 that the code keeps: all four modes return a candidate
\* of the stream type at the requested extreme, and the two highest modes
\* the cheapest of the ties
C25_HoldsForHighestModes ==
  /\ ChoseBy({"highestaudio", "lowestaudio", "highestvideo", "lowestvideo"})
       => AtExtreme(cfResult.format)
  /\ ChoseBy({"highestaudio", "highestvideo"})
       => CheapestOfTies(cfResult.format)

\* the lowest modes return the last of the sorted candidates, which among
\* ties is the one listed last: here one with more of the other dimension
C25_LowestAudioNotCheapest ==
  /\ ChoseBy({"lowestaudio"})
  /\ ~CheapestOfTies(cfResult.format)
C25_LowestVideoNotCheapest ==
  /\ ChoseBy({"lowestvideo"})
  /\ ~CheapestOfTies(cfResult.format)

\* a highest mode chose among ties that differ in the other dimension
C25_HighestAmongTies ==
  /\ ChoseBy({"highestaudio", "highestvideo"})
  /\ \E g \in OfStreamType :
       /\ RankByMode(cfResult.format, g) = 0
       /\ OtherDimension(g) > OtherDimension(cfResult.format)

\* a precedes b in the ranking of sortFormats
Precedes(a, b) == sortFormats(a, b) < 0

CandidateSet ==
  LET l == Candidates(cfFormats, cfOptions) IN {l[i] : i \in DOMAIN l}

\* quality 'highest' (also the default) or 'lowest' was asked for
AsksHighest ==
  cfOptions.format = NoFormat
    /\ QualityOrHighest(cfOptions.quality) = QString("highest")
AsksLowest ==
  cfOptions.format = NoFormat /\ cfOptions.quality = QString("lowest")

\* C26: for every list in any order, chooseFormat with quality 'highest'
\* returns a candidate that no other candidate precedes in the ranking of
\* sortFormats, and with 'lowest' a candidate that precedes no other.
C26_ExtremesOfRanking ==
  /\ (cfResult.kind = "return" /\ AsksHighest)
       => \A g \in CandidateSet : ~Precedes(g, cfResult.format)
  /\ (cfResult.kind = "return" /\ AsksLowest)
       => \A g \in CandidateSet : ~Precedes(cfResult.format, g)

\* the list is in the order of sortFormats, as getInfo leaves info.formats
IsRanked(l) ==
  \A i, j \in DOMAIN l : i < j => sortFormats(l[i], l[j]) <= 0

\* the part of C26 that the code keeps: the same for a list given in the
\* order of sortFormats; the first and the last candidate are returned
C26_HoldsForRankedLists ==
  /\ (cfResult.kind = "return" /\ (AsksHighest \/ AsksLowest))
       => cfResult.format =
            Candidates(cfFormats, cfOptions)[
              IF AsksHighest THEN 1
              ELSE Len(Candidates(cfFormats, cfOptions))]
  /\ IsRanked(cfFormats) => C26_ExtremesOfRanking

\* 'highest' returned the first of an unranked list although another
\* candidate precedes it
C26_HighestNotTop ==
  /\ cfResult.kind = "return"
  /\ AsksHighest
  /\ \E g \in CandidateSet : Precedes(g, cfResult.format)

\* 'lowest' returned the last of an unranked list although it precedes
\* another candidate
C26_LowestNotBottom ==
  /\ cfResult.kind = "return"
  /\ AsksLowest
  /\ \E g \in CandidateSet : Precedes(cfResult.format, g)

\* 'highest' on a ranked list of MaxFormats formats
C26_RankedListChosen ==
  /\ cfResult.kind = "return"
  /\ AsksHighest
  /\ IsRanked(cfFormats)
  /\ Len(cfFormats) = MaxFormats
  /\ \E g \in CandidateSet : Precedes(cfResult.format, g)

\* ========================================================================
\* Part C: info.ts, retryFunc / getBasicInfo / getInfo
\* ========================================================================
MaxRetriesOpt == 2
MaxClients == 2

\* if (!options.maxRetries) options.maxRetries = 3
DefaultMaxRetries == 3
\* if (!options.backoff) options.backoff = { inc: 500, max: 5000 }
BackoffInc == 500
BackoffMax == 5000

DeviceClients == <<"WEB_EMBEDDED", "TV", "IOS", "ANDROID">>
DeviceClientSet == {DeviceClients[i] : i \in DOMAIN DeviceClients}
AllClients == DeviceClientSet \cup {"WEB"}

\* applyPlayerClients
DefaultPlayerClients == {"WEB_EMBEDDED", "IOS", "ANDROID", "TV"}
applyPlayerClients(playerClients) ==
  IF playerClients = {} THEN DefaultPlayerClients ELSE playerClients

\* the statuses for which playError returns an UnrecoverableError
PlayErrorStatusesM == {"ERROR", "LOGIN_REQUIRED"}
PlayErrorStatuses ==
  {"ERROR", "LOGIN_REQUIRED", "LIVE_STREAM_OFFLINE", "UNPLAYABLE"}

\* the playability statuses of the model
PlayabilityStatuses ==
  {"OK", "ERROR", "LOGIN_REQUIRED", "LIVE_STREAM_OFFLINE", "UNPLAYABLE"}

\* playError(player_response) is not null
playError(player_response) == player_response.status \in PlayErrorStatuses

\* errors: the message (by kind) and the statusCode property, None if absent
Err(kind, statusCode) == [kind |-> kind, statusCode |-> statusCode]
NoErr == Err("", None)
UnrecoverableError == Err("UnrecoverableError", None)
Malformed == Err("Malformed response from YouTube", None)
ParseError == Err("Error when parsing watch.html", None)
NoHtml5player == Err("Unable to find html5player file", None)
NoPlayableFormats == Err("Failed to find any playable formats", None)
NoFormatsFound == Err("No playable formats found", None)
StatusCodeErr(code) == Err("Status code", code)

\* what a request can fail with: the status codes of the model
HttpErrors == {StatusCodeErr(404), StatusCodeErr(503)}
\* what a request made after the watch page fails with
LaterErrors == {StatusCodeErr(503)}

\* a url: where it points, the state of its signature ("" none, "s"
\* ciphered, "sig" deciphered) and of its n parameter ("" none, "n" as
\* sent, "N" transformed)
Url(src, itag, sg, n) == [src |-> src, itag |-> itag, sig |-> sg, n |-> n]
NoUrl == Url("", 0, "", "")

\* a raw format of a player response
RawFormat(src, itag, url, signatureCipher, mimeType) ==
  [src |-> src, itag |-> itag, url |-> url,
   signatureCipher |-> signatureCipher, mimeType |-> mimeType]

\* streamingData.formats and adaptiveFormats of a response of origin src:
\* none, or a plain format, a ciphered one and one without a mimeType
ResponseFormats(src) ==
  { <<>>,
    << RawFormat(src, 18, Url(src, 18, "", "n"), NoUrl, "video/mp4"),
       RawFormat(src, 140, NoUrl, Url(src, 140, "s", "n"), "audio/mp4"),
       RawFormat(src, 95, Url(src, 95, "", ""), NoUrl, "") >> }

\* parseFormats
parseFormats(player_response) == player_response.formats

NoResponse == [status |-> "", videoId |-> "", formats |-> <<>>]

\* the player responses the platform may send for a client
PlayerResponses(src) ==
  [status : {"OK", "UNPLAYABLE"}, videoId : {"id", "other", ""},
   formats : ResponseFormats(src)]

\* a response is settled as fulfilled with its value or rejected with err
Fulfilled(resp) == [state |-> "fulfilled", value |-> resp, err |-> NoErr]
Rejected(err) == [state |-> "rejected", value |-> NoResponse, err |-> err]
NotCalled == [state |-> "off", value |-> NoResponse, err |-> NoErr]
InFlightCall(st) == [state |-> st, value |-> NoResponse, err |-> NoErr]

\* playerAPI, fetchIosJsonPlayer, fetchAndroidJsonPlayer after the
\* response arrived: playability, then videoDetails of the requested id
ValidVideoDetailsM(resp) == TRUE
ValidVideoDetails(resp) == resp.videoId = "id"

playerAPI(resp) ==
  IF playError(resp) THEN Rejected(UnrecoverableError)
  ELSE IF ~ValidVideoDetails(resp) THEN Rejected(Malformed)
  ELSE Fulfilled(resp)

\* retryFunc: the catch clause throws instead of retrying
RetryThrows(err, try, max) ==
  (err.statusCode # None /\ err.statusCode < 500) \/ try >= max

\* Math.min(++currentTry * inc, max), given the incremented currentTry
RetryWait(try) ==
  IF try * BackoffInc < BackoffMax THEN try * BackoffInc ELSE BackoffMax

\* the player script, by what the extraction finds in it: a decipher
\* function, a function of the modern n-transform shape (that compiles or
\* not), an n-transform function for the older strategies
\* Of a body, for each extraction strategy: "none" when the strategy
\* finds no fragment, "ok" when the fragment it finds compiles, "bad" when
\* new vm.Script throws on it.  modern is the pattern modernNFuncPattern
\* of extractNTransform.
Fragments == {"none", "ok", "bad"}

Bodies ==
  [extractDecipherFunc : Fragments, extractDecipherWithName : Fragments,
   modern : Fragments, extractNTransformFunc : Fragments,
   extractNTransformWithName : Fragments]

\* the bodies of one resolution by getInfo
PlayerScripts ==
  {body \in Bodies :
     /\ body.extractDecipherFunc # "bad"
     /\ body.extractDecipherWithName = "none"
     /\ body.extractNTransformWithName = "none"
     /\ body.extractNTransformFunc # "bad"
     /\ body.modern # "none" => body.extractNTransformFunc = "none"}

DecipherStrategies == <<"extractDecipherFunc", "extractDecipherWithName">>
NTransformStrategies == <<"extractNTransformFunc", "extractNTransformWithName">>

\* getExtractFunctions: the strategy whose fragment was compiled, "" for
\* null
RECURSIVE getExtractFunctions(_, _)
getExtractFunctions(extractFns, body) ==
  IF extractFns = <<>> THEN ""
  ELSE IF body[Head(extractFns)] = "ok" THEN Head(extractFns)
  ELSE getExtractFunctions(Tail(extractFns), body)

\* the strategy behind the script returned by extractDecipher
DecipherSource(body) == getExtractFunctions(DecipherStrategies, body)

\* extractDecipher: FALSE for null
extractDecipher(body) == DecipherSource(body) # ""

\* what extractNTransform compiles when no extraction strategy matches
NoMatch == "fallback"

\* the strategy behind the script returned by extractNTransform, NoMatch
\* for the built-in function, "" for null
NTransformSource(body) ==
  IF body.modern # "none"
  THEN IF body.modern = "ok" THEN "modern" ELSE ""
  ELSE IF getExtractFunctions(NTransformStrategies, body) # ""
  THEN getExtractFunctions(NTransformStrategies, body)
  ELSE NoMatch

\* extractNTransform: the function that was compiled ("player": one found
\* in the player script), "" for null
extractNTransform(body) ==
  IF NTransformSource(body) \in {"", NoMatch} THEN NTransformSource(body)
  ELSE "player"

\* extractFunctions: [decipherScript, nTransformScript]
extractFunctions(body) ==
  [decipher |-> extractDecipher(body), nTransform |-> extractNTransform(body)]

Scripts == {extractFunctions(body) : body \in PlayerScripts}

\* sig.cache before the player script was fetched
NoFunctions == [decipher |-> FALSE, nTransform |-> "?"]

\* the formats (by itag) for which running a compiled script throws
Faults ==
  { [decipher |-> {}, nTransform |-> {}],
    [decipher |-> {140}, nTransform |-> {}],
    [decipher |-> {}, nTransform |-> {18}] }

ScriptError == Err("error thrown by runInNewContext", None)

decipher(url) == IF url.sig # "s" THEN url ELSE [url EXCEPT !.sig = "sig"]

\* the n parameter after the script ran: "N" by a function of the player
\* script, "F" by the fallback function
nTransform(url, scripts) ==
  IF url.n = "" \/ scripts.nTransform = "" THEN url
  ELSE [url EXCEPT !.n = IF scripts.nTransform = "fallback" THEN "F"
                         ELSE "N"]

setDownloadURL(f, scripts) ==
  IF ~scripts.decipher THEN f
  ELSE LET cipher == f.url = NoUrl
           url == IF ~cipher THEN f.url ELSE f.signatureCipher
       IN  IF url = NoUrl THEN f
           ELSE [f EXCEPT !.url = nTransform(IF cipher THEN decipher(url)
                                             ELSE url, scripts),
                          !.signatureCipher = NoUrl]

\* setDownloadURL(f) throws: a script run for f throws, nothing catches it
SetDownloadURLThrows(f, scripts, faults) ==
  /\ scripts.decipher
  /\ LET cipher == f.url = NoUrl
         url == IF ~cipher THEN f.url ELSE f.signatureCipher
     IN  /\ url # NoUrl
         /\ \/ cipher /\ url.sig = "s" /\ f.itag \in faults.decipher
            \/ /\ url.n # ""
               /\ scripts.nTransform # ""
               /\ f.itag \in faults.nTransform

\* target[f.url] = f on an object whose values are listed in the order
\* of the first insertion of their key
AssignM(target, f) == Append(target, f)
Assign(target, f) ==
  IF \E i \in DOMAIN target : target[i].url = f.url
  THEN [i \in DOMAIN target |-> IF target[i].url = f.url THEN f
                                ELSE target[i]]
  ELSE Append(target, f)

\* Object.assign(target, source) for objects keyed by url
RECURSIVE AssignAll(_, _)
AssignAll(target, source) ==
  IF source = <<>> THEN target
  ELSE AssignAll(Assign(target, Head(source)), Tail(source))

\* decipherFormats: the formats that have a url after setDownloadURL,
\* keyed by that url
decipherFormats(formats, scripts) ==
  LET done == [i \in DOMAIN formats |-> setDownloadURL(formats[i], scripts)]
      HasUrl(f) == f.url # NoUrl
  IN  AssignAll(<<>>, SelectSeq(done, HasUrl))

decipherFormatsThrows(formats, scripts, faults) ==
  \E i \in DOMAIN formats : SetDownloadURLThrows(formats[i], scripts, faults)

\* what getDashManifest and getM3U8 resolve with for the manifests named
\* in the chosen response (none when it names none): a DASH format, once
\* with the url of a format of the response, and an HLS format, which has
\* no mimeType
ManifestFormats(src) ==
  { <<>>,
    << RawFormat(src, 18, Url(src, 18, "", "n"), NoUrl, "video/mp4"),
       RawFormat(src, 300, Url(src, 300, "", ""), NoUrl, "video/mp4"),
       RawFormat(src, 96, Url(src, 96, "", ""), NoUrl, "") >> }

\* info.formats.filter(format => format && format.url && format.mimeType)
PlayableM(f) == TRUE
Playable(f) == f.url # NoUrl /\ f.mimeType # ""

NoInfo == [player_response |-> NoResponse, html5player |-> FALSE,
           formats |-> <<>>, full |-> FALSE]

GiStart ==
  /\ giPc = "start"
  /\ currentTry = 0
  /\ maxRetries = None
  /\ watchCalls = 0
  /\ waits = <<>>
  /\ lastErr = NoErr
  /\ giError = NoErr
  /\ info = NoInfo
  /\ calls = [c \in DeviceClientSet |-> NotCalled]
  /\ apiCalls = [c \in DeviceClientSet |-> 0]
  /\ scriptFetches = 0
  /\ decipherCalls = 0
  /\ bestPlayerResponse = ""
  /\ functions = NoFunctions

\* options.playerClients: not given (the default applies), or a list that
\* names up to MaxClients device profiles
ClientLists ==
  {pc \in SUBSET AllClients :
     Cardinality(pc \cap DeviceClientSet) <= MaxClients}

\* the options of the model: every list of player clients with the default
\* retry options, and every maxRetries with the WEB client alone
GiInit ==
  /\ giOptions \in
       [playerClients : ClientLists, maxRetries : {None}] \cup
       [playerClients : {{"WEB"}}, maxRetries : OptNat(MaxRetriesOpt)]
  /\ GiStart

\* getInfo when another part of the program is examined
GiIdle ==
  /\ giOptions = [playerClients |-> {}, maxRetries |-> None]
  /\ GiStart

playerClients == applyPlayerClients(giOptions.playerClients)

\* getInfo rejects with err
Reject(err) ==
  /\ giPc' = "rejected"
  /\ giError' = err

\* getInfo up to the first request of getBasicInfo: the options are
\* completed and retryFunc starts its loop (maxRetries is read from the
\* copy of options.requestOptions that getBasicInfo hands to retryFunc)
GetInfo ==
  /\ giPc = "start"
  /\ giPc' = "watch"
  /\ maxRetries' = OrElse(giOptions.maxRetries, DefaultMaxRetries)
  /\ currentTry' = 0
  /\ UNCHANGED <<giOptions, watchCalls, waits, lastErr, giError, info,
                 calls, apiCalls, scriptFetches, decipherCalls,
                 bestPlayerResponse>>
  /\ UNCHANGED <<dlVars, cfVars, caVars, urVars, sxVars, enVars, agVars,
                 functions>>

\* one invocation of getWatchHTMLPage by retryFunc fails with err
GetWatchHTMLPageFails(err) ==
  /\ giPc = "watch"
  /\ currentTry <= maxRetries
  /\ watchCalls' = watchCalls + 1
  /\ lastErr' = err
  /\ IF RetryThrows(err, currentTry, maxRetries)
     THEN /\ Reject(err)
          /\ UNCHANGED <<currentTry, waits>>
     ELSE /\ currentTry' = currentTry + 1
          /\ waits' = Append(waits, RetryWait(currentTry + 1))
          /\ giPc' = "waiting"
          /\ giError' = giError
  /\ UNCHANGED <<giOptions, maxRetries, info, calls, apiCalls,
                 scriptFetches, decipherCalls, bestPlayerResponse>>
  /\ UNCHANGED <<dlVars, cfVars, caVars, urVars, sxVars, enVars, agVars,
                 functions>>

\* the timer of retryFunc fires
RetryTimer ==
  /\ giPc = "waiting"
  /\ giPc' = "watch"
  /\ UNCHANGED <<giOptions, currentTry, maxRetries, watchCalls, waits,
                 lastErr, giError, info, calls, apiCalls, scriptFetches,
                 decipherCalls, bestPlayerResponse>>
  /\ UNCHANGED <<dlVars, cfVars, caVars, urVars, sxVars, enVars, agVars,
                 functions>>

\* one invocation of getWatchHTMLPage succeeds: retryFunc returns and
\* getBasicInfo does its playability preflight
GetWatchHTMLPageReturns(resp, html5player) ==
  /\ giPc = "watch"
  /\ currentTry <= maxRetries
  /\ watchCalls' = watchCalls + 1
  /\ info' = [info EXCEPT !.player_response = resp,
                          !.html5player = html5player]
  /\ IF playError(resp)
     THEN Reject(UnrecoverableError)
     ELSE giPc' = "html5player" /\ giError' = giError
  /\ UNCHANGED <<giOptions, currentTry, maxRetries, waits, lastErr, calls,
                 apiCalls, scriptFetches, decipherCalls, bestPlayerResponse>>
  /\ UNCHANGED <<dlVars, cfVars, caVars, urVars, sxVars, enVars, agVars,
                 functions>>

\* the clients whose promise is pushed, in the order of the pushes
Enabled(c) == c \in playerClients
NeedsPlaybackContext(c) == c \in {"WEB_EMBEDDED", "TV"}

\* the orders in which the promises of a set of clients can settle
RECURSIVE Orders(_)
Orders(S) ==
  IF S = {} THEN {<<>>}
  ELSE UNION {{<<c>> \o o : o \in Orders(S \ {c})} : c \in S}

\* const promises: the calls pushed, in the order of the pushes
Promises ==
  LET Pushed(c) == c \in playerClients IN SelectSeq(DeviceClients, Pushed)

PromiseIndex(c) == CHOOSE i \in DOMAIN Promises : Promises[i] = c

\* Promise.allSettled(promises): the result of each promise is stored at
\* the index of the promise when it settles (order: the promises in the
\* order in which they settle); the array holds the clients of the results
allSettledM(order) == order
allSettled(order) ==
  LET pushed == Promises
  IN  [i \in DOMAIN pushed |->
         IF \E k \in DOMAIN order : order[k] = pushed[i]
         THEN pushed[i] ELSE ""]

\* the fulfilled responses in the order of the array of allSettled
SuccessfulResponsesIn(cs, order) ==
  LET Ok(c) == cs[c].state = "fulfilled"
  IN  SelectSeq(allSettled(order), Ok)

SuccessfulResponses(cs) == SuccessfulResponsesIn(cs, Promises)

\* the origin of bestPlayerResponse after the try block
BestIn(cs, order) ==
  LET successfulResponses == SuccessfulResponsesIn(cs, order)
  IN  IF successfulResponses # <<>> THEN successfulResponses[1]
      ELSE IF "WEB" \in playerClients THEN "WEB"
      ELSE ""

BestOf(cs) == BestIn(cs, Promises)

ResponseOf(origin, cs) ==
  IF origin = "WEB" THEN info.player_response ELSE cs[origin].value

\* getInfo from the settled device calls on: the choice of
\* bestPlayerResponse and the start of sig.decipherFormats, which requests
\* the player script (sf: the script requests made before)
Reconcile(cs, order, sf) ==
  /\ bestPlayerResponse' = BestIn(cs, order)
  /\ IF BestIn(cs, order) = ""
     THEN /\ Reject(NoPlayableFormats)
          /\ scriptFetches' = sf
          /\ UNCHANGED decipherCalls
     ELSE /\ giPc' = "decipher"
          /\ giError' = giError
          /\ decipherCalls' = decipherCalls + 1
          /\ scriptFetches' = sf + 1

\* getInfo after getBasicInfo: the player script URL is taken from the
\* watch page or the embed page, then the enabled device calls start
Html5player(found) ==
  /\ giPc = "html5player"
  /\ IF ~(info.html5player \/ found)
     THEN /\ Reject(NoHtml5player)
          /\ UNCHANGED <<info, calls, apiCalls, scriptFetches,
                         decipherCalls, bestPlayerResponse>>
     ELSE LET cs == [c \in DeviceClientSet |->
                       IF ~Enabled(c) THEN NotCalled
                       ELSE IF NeedsPlaybackContext(c)
                       THEN InFlightCall("context")
                       ELSE InFlightCall("api")]
          IN /\ info' = [info EXCEPT !.html5player = TRUE]
             /\ calls' = cs
             /\ apiCalls' = [c \in DeviceClientSet |->
                               IF cs[c].state = "api" THEN 1 ELSE 0]
             /\ IF \E c \in DeviceClientSet : Enabled(c)
                THEN /\ giPc' = "calls"
                     /\ scriptFetches' = scriptFetches
                          + Cardinality({c \in DeviceClientSet :
                                           cs[c].state = "context"})
                     /\ UNCHANGED <<giError, decipherCalls,
                                    bestPlayerResponse>>
                ELSE Reconcile(cs, <<>>, scriptFetches)
  /\ UNCHANGED <<giOptions, currentTry, maxRetries, watchCalls, waits,
                 lastErr>>
  /\ UNCHANGED <<dlVars, cfVars, caVars, urVars, sxVars, enVars, agVars,
                 functions>>

\* getPlaybackContext of the call of client c: the request for the player
\* script fails with err, or returns and the player API request is sent
PlaybackContextFails(c, err) ==
  /\ giPc = "calls"
  /\ calls[c].state = "context"
  /\ calls' = [calls EXCEPT ![c] = Rejected(err)]
  /\ UNCHANGED <<giOptions, giPc, currentTry, maxRetries, watchCalls, waits,
                 lastErr, giError, info, apiCalls, scriptFetches,
                 decipherCalls, bestPlayerResponse>>
  /\ UNCHANGED <<dlVars, cfVars, caVars, urVars, sxVars, enVars, agVars,
                 functions>>

PlaybackContextReturns(c) ==
  /\ giPc = "calls"
  /\ calls[c].state = "context"
  /\ calls' = [calls EXCEPT ![c] = InFlightCall("api")]
  /\ apiCalls' = [apiCalls EXCEPT ![c] = @ + 1]
  /\ UNCHANGED <<giOptions, giPc, currentTry, maxRetries, watchCalls, waits,
                 lastErr, giError, info, scriptFetches, decipherCalls,
                 bestPlayerResponse>>
  /\ UNCHANGED <<dlVars, cfVars, caVars, urVars, sxVars, enVars, agVars,
                 functions>>

\* the player API request of client c fails with err
PlayerAPIFails(c, err) ==
  /\ giPc = "calls"
  /\ calls[c].state = "api"
  /\ calls' = [calls EXCEPT ![c] = Rejected(err)]
  /\ UNCHANGED <<giOptions, giPc, currentTry, maxRetries, watchCalls, waits,
                 lastErr, giError, info, apiCalls, scriptFetches,
                 decipherCalls, bestPlayerResponse>>
  /\ UNCHANGED <<dlVars, cfVars, caVars, urVars, sxVars, enVars, agVars,
                 functions>>

\* the player API request of client c is answered with resp
PlayerAPIReturns(c, resp) ==
  /\ giPc = "calls"
  /\ calls[c].state = "api"
  /\ calls' = [calls EXCEPT ![c] = playerAPI(resp)]
  /\ UNCHANGED <<giOptions, giPc, currentTry, maxRetries, watchCalls, waits,
                 lastErr, giError, info, apiCalls, scriptFetches,
                 decipherCalls, bestPlayerResponse>>
  /\ UNCHANGED <<dlVars, cfVars, caVars, urVars, sxVars, enVars, agVars,
                 functions>>

Settled(c) == calls[c].state \in {"off", "fulfilled", "rejected"}

\* Promise.allSettled(promises) resolves and getInfo goes on.  The calls
\* settle independently of each other, so they have settled in any of
\* the orders of the promises (order).
AllSettled ==
  /\ giPc = "calls"
  /\ \A c \in DeviceClientSet : Settled(c)
  /\ \E order \in Orders({c \in DeviceClientSet : Enabled(c)}) :
       Reconcile(calls, order, scriptFetches)
  /\ UNCHANGED <<giOptions, currentTry, maxRetries, watchCalls, waits,
                 lastErr, info, calls, apiCalls>>
  /\ UNCHANGED <<dlVars, cfVars, caVars, urVars, sxVars, enVars, agVars,
                 functions>>

\* the request for the player script made by getFunctions fails: the
\* promise of decipherFormats rejects and so does getInfo
DecipherFormatsFails(err) ==
  /\ giPc = "decipher"
  /\ Reject(err)
  /\ UNCHANGED <<giOptions, currentTry, maxRetries, watchCalls, waits,
                 lastErr, info, calls, apiCalls, scriptFetches,
                 decipherCalls, bestPlayerResponse>>
  /\ UNCHANGED <<dlVars, cfVars, caVars, urVars, sxVars, enVars, agVars,
                 functions>>

\* Promise.all(funcs) settles after decipherFormats got the player script
\* body and the manifests were read: the scripts are extracted and cached,
\* every format goes through setDownloadURL, and info.formats is what is
\* left of the merged results after the filter on url and mimeType (the
\* enrichment and the sort that follow keep the same formats)
DecipherFormatsReturns(body, faults, manifests) ==
  /\ giPc = "decipher"
  /\ functions' = extractFunctions(body)
  /\ LET scripts == extractFunctions(body)
         parsed == parseFormats(ResponseOf(bestPlayerResponse, calls))
         results == AssignAll(decipherFormats(parsed, scripts), manifests)
         formats == SelectSeq(results, Playable)
     IN  IF decipherFormatsThrows(parsed, scripts, faults)
         THEN /\ Reject(ScriptError)
              /\ info' = info
         ELSE IF formats = <<>>
         THEN /\ Reject(NoFormatsFound)
              /\ info' = [info EXCEPT !.formats = formats]
         ELSE /\ giPc' = "resolved"
              /\ giError' = giError
              /\ info' = [info EXCEPT !.formats = formats, !.full = TRUE]
  /\ UNCHANGED <<giOptions, currentTry, maxRetries, watchCalls, waits,
                 lastErr, calls, apiCalls, scriptFetches, decipherCalls,
                 bestPlayerResponse>>
  /\ UNCHANGED <<dlVars, cfVars, caVars, urVars, sxVars, enVars, agVars>>

\* what getWatchHTMLPage can throw: a request error or a parse error
WatchErrors == HttpErrors \cup {ParseError}

\* the watch page: any playability status, the requested video
WatchResponses ==
  [status : PlayabilityStatuses, videoId : {"id"},
   formats : ResponseFormats("WEB")]

GiNext ==
  \/ GetInfo
  \/ \E err \in WatchErrors : GetWatchHTMLPageFails(err)
  \/ RetryTimer
  \/ \E resp \in WatchResponses, html5player \in BOOLEAN :
       GetWatchHTMLPageReturns(resp, html5player)
  \/ \E found \in BOOLEAN : Html5player(found)
  \/ \E c \in DeviceClientSet, err \in LaterErrors :
       PlaybackContextFails(c, err)
  \/ \E c \in DeviceClientSet : PlaybackContextReturns(c)
  \/ \E c \in DeviceClientSet, err \in LaterErrors : PlayerAPIFails(c, err)
  \/ \E c \in DeviceClientSet :
       \E resp \in PlayerResponses(c) : PlayerAPIReturns(c, resp)
  \/ AllSettled
  \/ \E err \in LaterErrors : DecipherFormatsFails(err)
  \/ \E body \in PlayerScripts, faults \in Faults :
       \E manifests \in ManifestFormats(bestPlayerResponse) :
         DecipherFormatsReturns(body, faults, manifests)

\* ------------------------------------------------------------------------
\* Properties of retryFunc and getInfo
\* ------------------------------------------------------------------------
\* retryFunc is between two invocations of the wrapped function
Retrying == giPc = "waiting"

\* err carries a status code of the 5xx class
ServerSide(err) == err.statusCode # None /\ err.statusCode >= 500

\* C6: retryFunc retries only after a server-side (5xx) failure: a
\* failure with a status code below 500 or with no status code at all is
\* rethrown after that attempt, so retryFunc never waits for another
\* attempt after such a failure.
C6_RetriesOnlyServerSide == Retrying => ServerSide(lastErr)

\* the part of C6 that the code keeps: a failure with a status code below
\* 500 is rethrown at once
C6_HoldsForStatusCodes ==
  (lastErr.statusCode # None /\ lastErr.statusCode < 500)
    => (giPc = "rejected" /\ giError = lastErr)

\* a parse error of the watch page was followed by another invocation
C6_RetriedParseError ==
  /\ lastErr = ParseError
  /\ watchCalls >= 2

\* the retries asked for: options.maxRetries, 3 when it is not given
RequestedRetries ==
  IF giOptions.maxRetries = None THEN 3 ELSE giOptions.maxRetries

\* the retries after line 154: a maxRetries of 0 is replaced as well
EffectiveRetries == OrElse(giOptions.maxRetries, DefaultMaxRetries)

\* retryFunc is running
InRetryFunc == giPc \in {"watch", "waiting"}

\* an error the catch clause does not rethrow by its status code
Retryable(err) == ~(err.statusCode # None /\ err.statusCode < 500)

BoundedBy(max) ==
  /\ watchCalls <= max + 1
  /\ InRetryFunc => currentTry <= max

RetryStep(max) ==
  /\ ~InRetryFunc => watchCalls' = watchCalls
  /\ (giPc = "watch" /\ giPc' # "rejected" /\ giPc' # "waiting")
       => (info'.player_response # NoResponse /\ giError' = NoErr)
  /\ (giPc = "watch" /\ giPc' = "rejected" /\ info' = info)
       => /\ giError' = lastErr'
          /\ Retryable(lastErr') => watchCalls' = max + 1

\* C7: retryFunc terminates after a bounded number of attempts: the
\* wrapped function is invoked at most maxRetries + 1 times (maxRetries is
\* 3 when not given) and the loop is never left without a result or an
\* error; once an attempt has succeeded there is no further attempt; and
\* when every attempt failed with a retryable error, the error of the last
\* attempt is thrown to the caller.
C7_BoundedAttempts ==
  []BoundedBy(RequestedRetries) /\ [][RetryStep(RequestedRetries)]_giVars

\* the part of C7 that the code keeps: the same with the retries counted
\* after line 154, where a maxRetries of 0 has become 3
C7_HoldsForEffectiveRetries ==
  []BoundedBy(EffectiveRetries) /\ [][RetryStep(EffectiveRetries)]_giVars

\* maxRetries is 0 and the wrapped function was invoked a second time
C7_RetriedWithZero ==
  /\ giOptions.maxRetries = 0
  /\ watchCalls >= 2

\* the playability statuses C8 names
BlockingStatuses ==
  {"ERROR", "LOGIN_REQUIRED", "LIVE_STREAM_OFFLINE", "UNPLAYABLE"}

WatchPageBlocked == info.player_response.status \in BlockingStatuses

C8_Rejected ==
  WatchPageBlocked =>
    /\ giPc = "rejected"
    /\ giError = UnrecoverableError
    /\ \A c \in DeviceClientSet : calls[c] = NotCalled /\ apiCalls[c] = 0
    /\ scriptFetches = 0
    /\ decipherCalls = 0

C8_Step == WatchPageBlocked => watchCalls' = watchCalls

\* C8: when the watch page's player response has playability status
\* ERROR, LOGIN_REQUIRED, LIVE_STREAM_OFFLINE or UNPLAYABLE, getInfo
\* rejects with the unrecoverable error with no device-profile call made,
\* no player script requested and no deciphering started, and the watch
\* page is not requested again.
C8_PreflightShortCircuits == []C8_Rejected /\ [][C8_Step]_giVars

\* the preflight rejected the response of the second attempt
C8_Witness ==
  /\ info.player_response.status = "UNPLAYABLE"
  /\ giPc = "rejected"
  /\ watchCalls = 2

\* getInfo is past the choice of bestPlayerResponse
Reconciled ==
  \/ giPc \in {"decipher", "resolved"}
  \/ giPc = "rejected" /\ (bestPlayerResponse # "" \/
                           giError = NoPlayableFormats)

\* a device-profile response failed the videoDetails check
MalformedSeen == \E c \in DeviceClientSet : calls[c].err = Malformed

\* no device profile produced a valid response
NoValidResponse == \A c \in DeviceClientSet : calls[c].state # "fulfilled"

\* a response that fails the videoDetails check is not used, and its
\* request is not sent again
C9_Discarded ==
  \A c \in DeviceClientSet :
    /\ apiCalls[c] <= 1
    /\ calls[c].state = "fulfilled" => calls[c].value.videoId = "id"
    /\ calls[c].err = Malformed => bestPlayerResponse # c

C9_WitnessNoWeb ==
  /\ Reconciled
  /\ MalformedSeen
  /\ NoValidResponse
  /\ giOptions.playerClients = {}
  /\ giError = NoPlayableFormats

\* the device profiles with a validated response that contains formats
WithFormats ==
  {c \in DeviceClientSet :
     calls[c].state = "fulfilled" /\ parseFormats(calls[c].value) # <<>>}

\* C10: after the reconciliation the format list comes from a validated
\* device-profile response that contains formats whenever there is one,
\* and from the base web response in every other case.
C10_DeviceFormatsSupersede ==
  Reconciled =>
    IF WithFormats # {} THEN bestPlayerResponse \in WithFormats
    ELSE bestPlayerResponse = "WEB"

\* the part of C10 that the code keeps: the formats come from the first
\* fulfilled device response, else from the web response if WEB is a
\* player client
C10_FirstFulfilledWins ==
  Reconciled => bestPlayerResponse = BestOf(calls)

\* a device response without formats was chosen although another one has
\* formats
C10_EmptyResponseChosen ==
  /\ Reconciled
  /\ WithFormats # {}
  /\ bestPlayerResponse \notin WithFormats
  /\ giError = NoFormatsFound

EnabledDeviceClients == {c \in DeviceClientSet : Enabled(c)}

\* C21: for the enabled device profiles and the outcome of each of their
\* calls, the player response selected is the same for every order in
\* which the calls complete (the formats are parsed from the selected
\* response and from nothing else, so they are the same as well).
C21_OrderOfCompletionIrrelevant ==
  [][(giPc = "calls" /\ giPc' # "calls") =>
       \A order \in Orders(EnabledDeviceClients) :
         BestIn(calls, order) = bestPlayerResponse']_giVars

\* two device calls were fulfilled with different responses, so that the
\* first response to arrive depends on the order of completion, and the
\* response of the call pushed first was selected
C21_Witness ==
  /\ Reconciled
  /\ \E c, d \in EnabledDeviceClients :
       /\ PromiseIndex(c) < PromiseIndex(d)
       /\ calls[c].state = "fulfilled" /\ calls[d].state = "fulfilled"
       /\ parseFormats(calls[c].value) # parseFormats(calls[d].value)
       /\ \E order \in Orders(EnabledDeviceClients) :
            Head(SelectSeq(order, LAMBDA x : calls[x].state = "fulfilled"))
              = d
       /\ bestPlayerResponse = c

\* getInfo has resolved with info
Resolved == giPc = "resolved"

AllFormats(Test(_)) == \A i \in DOMAIN info.formats : Test(info.formats[i])

HasUrlAndMimeType(f) == f.url # NoUrl /\ f.mimeType # ""

\* C11: getInfo resolves only with info.full = true and a non-empty list
\* of formats that all have a url and a mimeType; info is never full
\* without that, and when no usable format is left getInfo is rejected
\* with one of its two 'no playable formats' errors.
C11_ResolvesWithUsableFormats ==
  /\ Resolved => /\ info.full
                 /\ info.formats # <<>>
                 /\ AllFormats(HasUrlAndMimeType)
                 /\ giError = NoErr
  /\ info.full => Resolved
  /\ (Reconciled /\ giPc # "decipher" /\ info.formats = <<>>
        /\ giError.kind \notin {"Status code", ScriptError.kind})
       => (giPc = "rejected" /\
           giError \in {NoPlayableFormats, NoFormatsFound})

\* a resolution that dropped a format without mimeType
C11_Witness ==
  /\ Resolved
  /\ Len(info.formats) >= 2
  /\ \E i \in DOMAIN parseFormats(ResponseOf(bestPlayerResponse, calls)) :
       parseFormats(ResponseOf(bestPlayerResponse, calls))[i].mimeType = ""

\* a rejection because the chosen response has no usable format
C11_WitnessRejected ==
  /\ giPc = "rejected"
  /\ giError = NoFormatsFound
  /\ bestPlayerResponse \in DeviceClientSet

NoCipher(f) == f.url # NoUrl /\ f.signatureCipher = NoUrl

DistinctUrls ==
  \A i, j \in DOMAIN info.formats :
    i # j => info.formats[i].url # info.formats[j].url

C12_WitnessNoScript ==
  /\ Resolved
  /\ ~functions.decipher
  /\ \A i \in DOMAIN info.formats : info.formats[i].itag # 140

\* C13: a script run that throws for one format affects that format
\* only; getInfo does not reject because of it.
C13_FaultAffectsOneFormat == giError # ScriptError

\* getInfo rejected with the error a script run threw
C13_RejectedByFault ==
  /\ giPc = "rejected"
  /\ giError = ScriptError

\* no n-transform extraction strategy matched the player script
NoStrategyMatched == functions.nTransform = NoMatch

NUnmodified(f) == f.url.n \in {"", "n"}

\* C14: when no n-transform extraction strategy matches the player
\* script, the resolution still succeeds with signature-only deciphering
\* and every resolved url has the n parameter of its input url.
C14_NLeftUnmodified ==
  (Resolved /\ NoStrategyMatched) => AllFormats(NUnmodified)

\* the part of C14 that the code keeps: without a match the resolution
\* succeeds as with a match, and the signatures are deciphered
C14_HoldsForSignatures ==
  (Resolved /\ NoStrategyMatched /\ functions.decipher)
    => \A i \in DOMAIN info.formats : info.formats[i].url.sig # "s"

\* a resolution whose n parameters went through the fallback function
C14_FallbackApplied ==
  /\ Resolved
  /\ NoStrategyMatched
  /\ \E i \in DOMAIN info.formats : info.formats[i].url.n = "F"

RECURSIVE Pow2(_)
Pow2(n) == IF n = 0 THEN 1 ELSE 2 * Pow2(n - 1)

\* the delay before the k-th retry under a doubling backoff that starts
\* at backoff.inc and is capped at backoff.max
DoublingWait(k) ==
  IF BackoffInc * Pow2(k - 1) < BackoffMax THEN BackoffInc * Pow2(k - 1)
  ELSE BackoffMax

\* C20: the delay before the k-th retry doubles with every retry,
\* starting from backoff.inc, and is never larger than backoff.max.
C20_DelaysDouble ==
  \A k \in DOMAIN waits :
    /\ waits[k] = DoublingWait(k)
    /\ waits[k] <= BackoffMax

\* the part of C20 that the code keeps: the k-th delay is k times
\* backoff.inc, capped at backoff.max, for the delays waited and for
\* every retry up to twice the one that reaches the cap
C20_DelaysGrowLinearly ==
  /\ \A k \in DOMAIN waits :
       /\ waits[k] = (IF k * BackoffInc < BackoffMax THEN k * BackoffInc
                      ELSE BackoffMax)
       /\ waits[k] <= BackoffMax
  /\ \A k \in 1..(2 * (BackoffMax \div BackoffInc)) :
       /\ RetryWait(k) <= BackoffMax
       /\ k > 1 => RetryWait(k) >= RetryWait(k - 1)

\* retryFunc has waited before a third retry
C20_ThirdRetryWaited ==
  /\ Len(waits) >= 3
  /\ waits[3] # DoublingWait(3)

\* ========================================================================
\* Part D: cache.ts, Cache
\* ========================================================================
MaxOps == 4
MaxPromises == 2

Keys == {"k1", "k2"}
\* the values handed to set; the value of a promise p is PromiseBase + p
Values == {1, 2}
NoValue == 0
PromiseBase == 10
PromiseValue(p) == PromiseBase + p
PromiseIds == 1 .. MaxPromises

NoEntry == [tid |-> 0, value |-> NoValue]
NoPromise == [key |-> "", state |-> "none"]
NoOp == [op |-> "", key |-> "", n |-> 0]
NoReturn == [key |-> "", value |-> NoValue, called |-> FALSE]

\* has(key), get(key)
Has(c, key) == c[key] # NoEntry
Get(c, key) == IF c[key] # NoEntry THEN c[key].value ELSE NoValue

\* this.cache.delete(key)
RemoveM(c, key) == [k \in Keys |-> NoEntry]
Remove(c, key) == [c EXCEPT ![key] = NoEntry]

\* clearTimeout(entry.tid) for the entry of key, if there is one
ClearTimeout(ts, c, key) == {t \in ts : t.tid # c[key].tid}

\* set(key, value): the timer of an entry that is replaced is cleared, the
\* new entry gets a timer of its own (tid: the number of the call)
SetEntry(c, key, value, tid) ==
  [c EXCEPT ![key] = [tid |-> tid, value |-> value]]
SetTimers(ts, c, key, tid) ==
  ClearTimeout(ts, c, key) \cup {[tid |-> tid, key |-> key]}

\* delete(key)
DeleteEntry(c, key) == IF Has(c, key) THEN Remove(c, key) ELSE c
DeleteTimers(ts, c, key) == ClearTimeout(ts, c, key)

CaInit ==
  /\ cache = [k \in Keys |-> NoEntry]
  /\ timers = {}
  /\ promises = [p \in PromiseIds |-> NoPromise]
  /\ returned = NoReturn
  /\ lastSet = [k \in Keys |-> NoValue]
  /\ history = {}
  /\ lastOp = NoOp

\* the method call that is made now
Op(name, key) ==
  /\ lastOp.n < MaxOps
  /\ lastOp' = [op |-> name, key |-> key, n |-> lastOp.n + 1]
  /\ history' = history \cup {name}

Set(key, value) ==
  /\ Op("set", key)
  /\ cache' = SetEntry(cache, key, value, lastOp.n + 1)
  /\ timers' = SetTimers(timers, cache, key, lastOp.n + 1)
  /\ lastSet' = [lastSet EXCEPT ![key] = value]
  /\ UNCHANGED <<promises, returned>>
  /\ UNCHANGED <<dlVars, cfVars, giVars, urVars, sxVars, enVars, agVars>>

Delete(key) ==
  /\ Op("delete", key)
  /\ cache' = DeleteEntry(cache, key)
  /\ timers' = DeleteTimers(timers, cache, key)
  /\ lastSet' = [lastSet EXCEPT ![key] = NoValue]
  /\ UNCHANGED <<promises, returned>>
  /\ UNCHANGED <<dlVars, cfVars, giVars, urVars, sxVars, enVars, agVars>>

Clear ==
  /\ Op("clear", "")
  /\ cache' = [k \in Keys |-> NoEntry]
  /\ timers' = {}
  /\ lastSet' = [k \in Keys |-> NoValue]
  /\ UNCHANGED <<promises, returned>>
  /\ UNCHANGED <<dlVars, cfVars, giVars, urVars, sxVars, enVars, agVars>>

\* getOrSet(key, fn) with a producer fn that returns a new promise
GetOrSet(key) ==
  /\ Op("getOrSet", key)
  /\ IF Has(cache, key) /\ Get(cache, key) # NoValue
     THEN /\ returned' = [key |-> key, value |-> Get(cache, key),
                          called |-> FALSE]
          /\ UNCHANGED <<cache, timers, promises>>
     ELSE /\ \E p \in PromiseIds :
               /\ promises[p] = NoPromise
               /\ \A q \in PromiseIds : q < p => promises[q] # NoPromise
               /\ promises' = [promises EXCEPT
                                 ![p] = [key |-> key, state |-> "pending"]]
               /\ returned' = [key |-> key, value |-> PromiseValue(p),
                               called |-> TRUE]
               /\ IF Has(cache, key)
                  THEN UNCHANGED <<cache, timers>>
                  ELSE /\ cache' = SetEntry(cache, key, PromiseValue(p),
                                            lastOp.n + 1)
                       /\ timers' = SetTimers(timers, cache, key,
                                              lastOp.n + 1)
  /\ UNCHANGED lastSet
  /\ UNCHANGED <<dlVars, cfVars, giVars, urVars, sxVars, enVars, agVars>>

\* the timer t of an entry fires: this.delete(key)
Timeout(t) ==
  /\ t \in timers
  /\ history' = history \cup {"timeout"}
  /\ cache' = DeleteEntry(cache, t.key)
  /\ timers' = DeleteTimers(timers, cache, t.key) \ {t}
  /\ UNCHANGED <<promises, returned, lastSet, lastOp>>
  /\ UNCHANGED <<dlVars, cfVars, giVars, urVars, sxVars, enVars, agVars>>

\* the promise p of a producer is fulfilled
Fulfill(p) ==
  /\ promises[p].state = "pending"
  /\ promises' = [promises EXCEPT ![p].state = "fulfilled"]
  /\ history' = history \cup {"settle"}
  /\ UNCHANGED <<cache, timers, returned, lastSet, lastOp>>
  /\ UNCHANGED <<dlVars, cfVars, giVars, urVars, sxVars, enVars, agVars>>

\* the promise p of a producer is rejected: the catch clause of getOrSet
\* deletes the key
RejectPromise(p) ==
  /\ promises[p].state = "pending"
  /\ promises' = [promises EXCEPT ![p].state = "rejected"]
  /\ history' = history \cup {"settle"}
  /\ cache' = DeleteEntry(cache, promises[p].key)
  /\ timers' = DeleteTimers(timers, cache, promises[p].key)
  /\ UNCHANGED <<returned, lastSet, lastOp>>
  /\ UNCHANGED <<dlVars, cfVars, giVars, urVars, sxVars, enVars, agVars>>

CaNext ==
  \/ \E key \in Keys, value \in Values : Set(key, value)
  \/ \E key \in Keys : Delete(key)
  \/ Clear
  \/ \E key \in Keys : GetOrSet(key)
  \/ \E t \in timers : Timeout(t)
  \/ \E p \in PromiseIds : Fulfill(p)
  \/ \E p \in PromiseIds : RejectPromise(p)

\* the cache when another part of the program is examined
CaIdle == CaInit

\* ------------------------------------------------------------------------
\* Properties of the cache
\* ------------------------------------------------------------------------
\* the computations for key that are in flight
PendingFor(key) ==
  {p \in PromiseIds :
     promises[p].key = key /\ promises[p].state = "pending"}

\* the cache was used through getOrSet only
OnlyGetOrSet == history \cap {"set", "delete", "clear"} = {}

\* no timer has fired
NoExpiry == "timeout" \notin history

\* the step is a call of the method op
Calls(op) == lastOp'.n # lastOp.n /\ lastOp'.op = op

OnePerKey == \A key \in Keys : Cardinality(PendingFor(key)) <= 1

\* a getOrSet for a key with a computation in flight returns the promise
\* of that computation and does not call its producer
SharesInFlight ==
  (Calls("getOrSet") /\ PendingFor(lastOp'.key) # {})
    => /\ ~returned'.called
       /\ \E p \in PendingFor(lastOp'.key) :
            returned'.value = PromiseValue(p)

\* C15: while a computation started by getOrSet for a key is in flight,
\* every other getOrSet for that key returns the in-flight promise without
\* calling its producer, so at most one computation per key runs at a
\* time (for a cache used through getOrSet, whatever its timeout).
C15_OneComputationPerKey ==
  /\ [](OnlyGetOrSet => OnePerKey)
  /\ [][OnlyGetOrSet' => SharesInFlight]_caVars

\* the part of C15 that the code keeps: the same as long as no timer of
\* the cache has fired
C15_HoldsWithoutExpiry ==
  /\ []((OnlyGetOrSet /\ NoExpiry) => OnePerKey)
  /\ [][(OnlyGetOrSet' /\ NoExpiry') => SharesInFlight]_caVars

\* the entry expired during the computation and a second one was started
C15_TwoInFlight ==
  /\ OnlyGetOrSet
  /\ ~NoExpiry
  /\ Cardinality(PendingFor("k1")) = 2

\* only set, delete and clear were called and no timer has fired
Plain == history \subseteq {"set", "delete", "clear"}

FollowsLastSet ==
  \A key \in Keys :
    /\ Get(cache, key) = lastSet[key]
    /\ Has(cache, key) <=> lastSet[key] # NoValue

FrameOfRemovals ==
  /\ Calls("delete") =>
       \A key \in Keys \ {lastOp'.key} : cache'[key] = cache[key]
  /\ Calls("clear") => \A key \in Keys : ~Has(cache', key)

\* C16: after any sequence of set, delete and clear with no timeout
\* elapsing, get(k) is the value last set for k and has(k) is true if k
\* was set and not deleted or cleared since, otherwise get(k) is null and
\* has(k) false; delete(k) leaves every other key as it was and clear
\* removes every key.
C16_CacheFollowsLastSet ==
  /\ [](Plain => FollowsLastSet)
  /\ [][Plain' => FrameOfRemovals]_caVars

\* a key was deleted while the other key keeps its second value
C16_Witness ==
  /\ Plain
  /\ lastOp.op = "delete"
  /\ ~Has(cache, lastOp.key)
  /\ \E key \in Keys \ {lastOp.key} : Get(cache, key) = 2
  /\ lastOp.n = 4

\* both keys were set and then cleared
C16_WitnessClear ==
  /\ Plain
  /\ lastOp.op = "clear"
  /\ lastOp.n = 3
  /\ \A t \in timers : FALSE

\* the step rejects the promise p
Rejects(p) ==
  promises[p].state = "pending" /\ promises'[p].state = "rejected"

\* the entry of the key holds the promise p
Holds(c, p) == Get(c, promises[p].key) = PromiseValue(p)

\* the rejection of p removes the entry that holds p and leaves an entry
\* that holds something newer in the cache
RemovesOnlyFailedEntry ==
  \A p \in PromiseIds :
    Rejects(p) =>
      IF Holds(cache, p) THEN ~Has(cache', promises[p].key)
      ELSE cache' = cache

\* a getOrSet for a key without an entry calls its producer
CallsProducerAgain ==
  (Calls("getOrSet") /\ ~Has(cache, lastOp'.key)) => returned'.called

\* C30: when a promise stored by getOrSet rejects, only the entry holding
\* that promise is removed: a newer value or in-flight promise that the
\* key holds by then stays in the cache; and after the failed entry is
\* removed, the next getOrSet for the key calls its producer again.
C30_OnlyFailedEntryRemoved ==
  [][RemovesOnlyFailedEntry /\ CallsProducerAgain]_caVars

\* what the code does: the rejection deletes the key, whatever its entry
\* holds by then, and no other key; a getOrSet for a key without entry
\* calls its producer
RejectionDeletesKey ==
  \A p \in PromiseIds :
    Rejects(p) =>
      /\ ~Has(cache', promises[p].key)
      /\ \A key \in Keys \ {promises[p].key} : cache'[key] = cache[key]

C30_RejectionDeletesKey ==
  [][RejectionDeletesKey /\ CallsProducerAgain]_caVars

\* the key was overwritten by set while the promise was in flight, and the
\* rejection of the promise removed the value that was set
C30_NewerValueRemoved ==
  /\ promises[1] = [key |-> "k1", state |-> "rejected"]
  /\ lastSet["k1"] = 1
  /\ ~Has(cache, "k1")
  /\ history \cap {"timeout", "delete", "clear"} = {}

\* the entry expired, a second computation was started, and the rejection
\* of the first promise left the second one in flight without entry
C30_NewerPromiseRemoved ==
  /\ promises[1] = [key |-> "k1", state |-> "rejected"]
  /\ promises[2] = [key |-> "k1", state |-> "pending"]
  /\ ~Has(cache, "k1")
  /\ lastOp.n = 2
  /\ timers = {}

\* the entry of a rejected promise was removed and getOrSet has called
\* the producer again
C30_ProducerCalledAgain ==
  /\ promises[1] = [key |-> "k1", state |-> "rejected"]
  /\ promises[2] = [key |-> "k1", state |-> "pending"]
  /\ Get(cache, "k1") = PromiseValue(2)
  /\ returned = [key |-> "k1", value |-> PromiseValue(2), called |-> TRUE]
  /\ history = {"getOrSet", "settle"}

\* ========================================================================
\* Part E: video ids and urls (url-utils.ts)
\* ========================================================================
\* longest run of whitespace around an input
MaxPad == 1

\* length of a video id in idRegex
IdLength == 11

\* Strings are sequences of characters.  "a", "_" and "-" stand for the
\* characters of [a-zA-Z0-9-_], " " for whitespace, "!" for any other
\* character; a keyword of a path ("embed", "watch"...) is one element.
IdChars == {"a", "_", "-"}
Whitespace == {" "}
Empty == <<>>

Run(c, n) == [i \in 1..n |-> c]

\* String.prototype.trim
RECURSIVE TrimStart(_)
TrimStart(str) ==
  IF str # Empty /\ Head(str) \in Whitespace THEN TrimStart(Tail(str))
  ELSE str

RECURSIVE TrimEnd(_)
TrimEnd(str) ==
  IF str # Empty /\ str[Len(str)] \in Whitespace
  THEN TrimEnd(SubSeq(str, 1, Len(str) - 1))
  ELSE str

Trim(str) == TrimEnd(TrimStart(str))

\* str.substring(0, n)
Substring(str, n) == SubSeq(str, 1, IF Len(str) < n THEN Len(str) ELSE n)

\* idRegex.test(str): /^[a-zA-Z0-9-_]{11}$/
idRegex(str) ==
  Len(str) = IdLength /\ \A i \in DOMAIN str : str[i] \in IdChars

validateID(id) == idRegex(Trim(id))

validQueryDomains ==
  {"youtube.com", "www.youtube.com", "m.youtube.com", "music.youtube.com",
   "gaming.youtube.com"}

PathKeywords == {"embed", "v", "shorts", "live"}

\* the first segments of the paths of the model
Keywords == PathKeywords \cup {"watch", "playlist"}

\* the inputs: a text that is no url, or a url given by its parts.  The
\* last segment of a path is Empty when the path ends with a slash; v is
\* the value of the query parameter v, None when there is none.
Texts ==
  {[kind |-> "text",
    text |-> Run(" ", lead) \o Run("a", n) \o bad \o Run(" ", trail)] :
     lead \in 0..MaxPad, trail \in 0..MaxPad,
     n \in {0, IdLength - 1, IdLength, IdLength + 1},
     bad \in {Empty, <<"!">>}}

Id(n) == Run("a", n - 1) \o <<"_">>

Hosts ==
  {"youtu.be", "youtube.com", "www.youtube.com", "m.youtube.com",
   "music.youtube.com", "example.com"}

PathsOfUrls ==
  {<<>>, <<Empty>>, <<Id(IdLength)>>, <<Id(3)>>, <<<<"embed">>>>,
   <<<<"embed">>, Empty>>, <<<<"embed">>, Id(IdLength)>>,
   <<<<"shorts">>, Id(IdLength + 1)>>, <<<<"watch">>>>,
   <<<<"playlist">>>>}

QueryValues ==
  {Empty, Id(IdLength), Id(IdLength + 1), Id(IdLength - 1),
   <<" ">> \o Id(IdLength), Run("a", IdLength - 1) \o <<"!">>}

Urls ==
  [kind : {"url"}, lead : 0..MaxPad, scheme : {"https", "http", "ftp"},
   host : Hosts, path : PathsOfUrls, hasV : {TRUE}, v : QueryValues]
  \cup
  [kind : {"url"}, lead : 0..MaxPad, scheme : {"https", "http", "ftp"},
   host : Hosts, path : PathsOfUrls, hasV : {FALSE}, v : {Empty}]

Inputs == Texts \cup Urls

\* urlRegex.test(str.trim()): /^https?:\/\//
urlRegex(str) == str.kind = "url" /\ str.scheme \in {"https", "http"}

\* validPathDomains.test(link.trim()):
\* /^https?:\/\/(youtu\.be\/|(www\.)?youtube\.com\/(embed|v|shorts|live)\/)/
validPathDomains(link) ==
  /\ urlRegex(link)
  /\ \/ link.host = "youtu.be" /\ Len(link.path) >= 1
     \/ /\ link.host \in {"youtube.com", "www.youtube.com"}
        /\ Len(link.path) >= 2
        /\ \E k \in PathKeywords : link.path[1] = <<k>>

\* parsed.pathname.split('/'): the pathname of a url without a path is "/"
PathnameSplit(link) ==
  <<Empty>> \o (IF link.path = <<>> THEN <<Empty>> ELSE link.path)

\* an element of an array, undefined (falsy like the empty string) past
\* its end
At(paths, i) == IF i <= Len(paths) THEN paths[i] ELSE Empty

UrReturned(value) == [kind |-> "return", value |-> value]
UrThrown(error) == [kind |-> "throw", error |-> error]
UrPending == [kind |-> "pending"]

InvalidURL == UrThrown("Invalid URL")
NotYouTubeDomain == UrThrown("Not a YouTube domain")
NoVideoIdFound == UrThrown("No video id found")
BadIdFormat == UrThrown("does not match expected format")

\* lines 59-69 of getURLVideoID, for the id found in the link
CheckId(id) ==
  IF id = Empty THEN NoVideoIdFound
  ELSE IF ~validateID(Substring(id, IdLength)) THEN BadIdFormat
  ELSE UrReturned(Substring(id, IdLength))

getURLVideoID(link) ==
  IF link.kind # "url" THEN InvalidURL
  ELSE
    LET v == IF link.hasV THEN link.v ELSE Empty
        paths == PathnameSplit(link)
    IN IF validPathDomains(link) /\ v = Empty
       THEN CheckId(IF link.host = "youtu.be" THEN At(paths, 2)
                    ELSE At(paths, 3))
       ELSE IF link.host \notin validQueryDomains THEN NotYouTubeDomain
       ELSE CheckId(v)

\* the text of an input as validateID reads it: a url holds ':' and '/',
\* which idRegex rejects
TextOf(str) == IF str.kind = "text" THEN str.text ELSE <<"!">>

getVideoID(str) ==
  IF validateID(TextOf(str)) THEN UrReturned(TextOf(str))
  ELSE IF urlRegex(str) THEN getURLVideoID(str)
  ELSE NoVideoIdFound

validateURL(string) ==
  IF getURLVideoID(string).kind = "return" THEN UrReturned(TRUE)
  ELSE UrReturned(FALSE)

UrInit ==
  /\ urInput \in Inputs
  /\ urCall = "none"
  /\ urResult = UrPending

GetURLVideoID ==
  /\ urCall = "none"
  /\ urCall' = "getURLVideoID"
  /\ urResult' = getURLVideoID(urInput)
  /\ UNCHANGED urInput
  /\ UNCHANGED <<dlVars, cfVars, giVars, caVars, sxVars, enVars, agVars>>

GetVideoID ==
  /\ urCall = "none"
  /\ urCall' = "getVideoID"
  /\ urResult' = getVideoID(urInput)
  /\ UNCHANGED urInput
  /\ UNCHANGED <<dlVars, cfVars, giVars, caVars, sxVars, enVars, agVars>>

ValidateURL ==
  /\ urCall = "none"
  /\ urCall' = "validateURL"
  /\ urResult' = validateURL(urInput)
  /\ UNCHANGED urInput
  /\ UNCHANGED <<dlVars, cfVars, giVars, caVars, sxVars, enVars, agVars>>

UrNext == GetURLVideoID \/ GetVideoID \/ ValidateURL

UrIdle ==
  /\ urInput = [kind |-> "text", text |-> Empty]
  /\ urCall = "none"
  /\ urResult = UrPending

\* ---- properties ----
\* validateURL returned a boolean, true exactly when getURLVideoID returns
ValidateURLAgrees ==
  urCall = "validateURL" =>
    /\ urResult.kind = "return"
    /\ urResult.value \in BOOLEAN
    /\ urResult.value = (getURLVideoID(urInput).kind = "return")

\* 11 characters from [A-Za-z0-9_-]
ElevenIdChars(id) == idRegex(id)

ReturnedId(fns) == urCall \in fns /\ urResult.kind = "return"

OnYouTube(link) == link.host \in validQueryDomains \cup {"youtu.be"}

\* the url names no id: no parameter v and nothing but keywords in its path
WithoutId(link) ==
  /\ ~link.hasV
  /\ \A i \in DOMAIN link.path :
       link.path[i] \in {Empty} \cup {<<k>> : k \in Keywords}

CalledOnUrl(fns) == urCall \in fns /\ urInput.kind = "url"

IdFunctions == {"getURLVideoID", "getVideoID"}

\* C19: validateURL returns a boolean and never throws, true exactly when
\* getURLVideoID returns an id; every id returned by getURLVideoID or
\* getVideoID has 11 characters from [A-Za-z0-9_-]; a url on a
\* non-YouTube domain fails with 'Not a YouTube domain'; a YouTube url
\* without an id fails with 'No video id found'.
C19_IdsAndErrors ==
  /\ ValidateURLAgrees
  /\ ReturnedId(IdFunctions) => ElevenIdChars(urResult.value)
  /\ (CalledOnUrl(IdFunctions) /\ ~OnYouTube(urInput))
       => urResult = NotYouTubeDomain
  /\ (CalledOnUrl(IdFunctions) /\ OnYouTube(urInput)
        /\ WithoutId(urInput))
       => urResult = NoVideoIdFound

\* the part of C19 that the code keeps: validateURL agrees with
\* getURLVideoID; the ids of getURLVideoID have 11 characters of the
\* alphabet and those of getVideoID pass validateID; a http(s) url on a
\* non-YouTube domain fails with 'Not a YouTube domain'; a url without an
\* id on a domain of validQueryDomains fails with 'No video id found'.
C19_HoldsForUrls ==
  /\ ValidateURLAgrees
  /\ ReturnedId({"getURLVideoID"}) => ElevenIdChars(urResult.value)
  /\ ReturnedId({"getVideoID"}) => validateID(urResult.value)
  /\ (CalledOnUrl(IdFunctions) /\ ~OnYouTube(urInput)
        /\ urlRegex(urInput))
       => urResult = NotYouTubeDomain
  /\ (CalledOnUrl(IdFunctions) /\ urInput.host \in validQueryDomains
        /\ WithoutId(urInput))
       => urResult = NoVideoIdFound

\* getVideoID returned a text with whitespace around the id
C19_ReturnedUntrimmed ==
  /\ ReturnedId({"getVideoID"})
  /\ Len(urResult.value) > IdLength

\* https://youtu.be without a path was rejected as not a YouTube domain
C19_ShortLinkRejected ==
  /\ CalledOnUrl({"getURLVideoID"})
  /\ urInput.host = "youtu.be"
  /\ urInput.scheme = "https"
  /\ WithoutId(urInput)
  /\ urResult = NotYouTubeDomain

\* validateURL answered true for an id longer than 11 characters
C19_ValidatedUrl ==
  /\ urCall = "validateURL"
  /\ urResult = UrReturned(TRUE)
  /\ urInput.hasV
  /\ Len(urInput.v) > IdLength

\* ========================================================================
\* Part F: extraction of the player scripts (sig.ts)
\* ========================================================================
\* number of player scripts extracted by the process
MaxExtractions == 2

SxReturned(d, n) == [kind |-> "return", decipher |-> d, nTransform |-> n]
SxThrown == [kind |-> "throw", decipher |-> "", nTransform |-> ""]
SxNone == [kind |-> "none", decipher |-> "", nTransform |-> ""]

NoBody == [s \in DOMAIN CHOOSE b \in Bodies : TRUE |-> "none"]

\* if (!nTransformWarning), if (!decipherWarning): the guard of a warning
WarnsM(warning) == TRUE
Warns(warning) == ~warning

\* extractDecipher warns when no strategy gave a script and it has not
\* warned before; the text of the warning holds the name of the file that
\* utils.saveDebugFile writes (writeFails: writeFileSync throws)
DecipherWarns(body) == DecipherSource(body) = "" /\ Warns(decipherWarning)
DecipherThrows(body, writeFails) == DecipherWarns(body) /\ writeFails

\* extractNTransform warns when the modern fragment does not compile or
\* when it falls back to the built-in function, if it has not warned
\* before; only the second warning writes the debug file
NTransformWarns(body) ==
  /\ NTransformSource(body) \in {"", NoMatch}
  /\ Warns(nTransformWarning)
NTransformThrows(body, writeFails) ==
  NTransformSource(body) = NoMatch /\ NTransformWarns(body) /\ writeFails

SxInit ==
  /\ decipherWarning = FALSE
  /\ nTransformWarning = FALSE
  /\ warnings = [decipher |-> 0, nTransform |-> 0]
  /\ extractions = 0
  /\ sxBody = NoBody
  /\ sxResult = SxNone

\* extractFunctions(body): extractDecipher(body), then
\* extractNTransform(body)
ExtractFunctions(body, writeFails) ==
  /\ extractions < MaxExtractions
  /\ extractions' = extractions + 1
  /\ sxBody' = body
  /\ IF DecipherThrows(body, writeFails)
     THEN /\ sxResult' = SxThrown
          /\ UNCHANGED <<decipherWarning, nTransformWarning, warnings>>
     ELSE /\ decipherWarning' = (decipherWarning \/ DecipherWarns(body))
          /\ IF NTransformThrows(body, writeFails)
             THEN /\ sxResult' = SxThrown
                  /\ warnings' =
                       [warnings EXCEPT !.decipher =
                          IF DecipherWarns(body) THEN @ + 1 ELSE @]
                  /\ UNCHANGED nTransformWarning
             ELSE /\ sxResult' = SxReturned(DecipherSource(body),
                                           NTransformSource(body))
                  /\ nTransformWarning' =
                       (nTransformWarning \/ NTransformWarns(body))
                  /\ warnings' =
                       [decipher |-> IF DecipherWarns(body)
                                     THEN warnings.decipher + 1
                                     ELSE warnings.decipher,
                        nTransform |-> IF NTransformWarns(body)
                                       THEN warnings.nTransform + 1
                                       ELSE warnings.nTransform]
  /\ UNCHANGED <<dlVars, cfVars, giVars, caVars, urVars, enVars, agVars>>

SxNext == \E body \in Bodies, writeFails \in BOOLEAN :
            ExtractFunctions(body, writeFails)

SxIdle == SxInit

\* ---- properties ----
\* C22: over any sequence of extractions, whatever path each one takes,
\* the warning about a failed n-transform extraction is logged at most
\* once.
C22_WarnedAtMostOnce ==
  /\ warnings.nTransform <= 1
  /\ nTransformWarning = (warnings.nTransform = 1)

\* the n-transform extraction failed in every one of MaxExtractions
\* extractions and one warning was logged
C22_Witness ==
  /\ extractions = MaxExtractions
  /\ sxResult.kind = "return"
  /\ sxResult.nTransform \in {"", NoMatch}
  /\ warnings.nTransform = 1

\* the first strategy of the list whose fragment compiles, "" when none
RECURSIVE FirstCompiling(_, _)
FirstCompiling(strategies, body) ==
  IF strategies = <<>> THEN ""
  ELSE IF body[Head(strategies)] = "ok" THEN Head(strategies)
  ELSE FirstCompiling(Tail(strategies), body)

\* the strategies for the n-transform in the order in which they are tried
AllNTransformStrategies == <<"modern">> \o NTransformStrategies

\* C23: for each fragment type the result is the script of the first
\* strategy, in the fixed order, whose fragment compiles; a fragment that
\* does not compile never stops the later strategies, and the result is
\* absent, or the placeholder, only when no strategy gives a fragment
\* that compiles.
C23_FirstCompilingWins ==
  sxResult.kind = "return" =>
    /\ sxResult.decipher = FirstCompiling(DecipherStrategies, sxBody)
    /\ IF FirstCompiling(AllNTransformStrategies, sxBody) = ""
       THEN sxResult.nTransform \in {"", NoMatch}
       ELSE sxResult.nTransform
              = FirstCompiling(AllNTransformStrategies, sxBody)

\* the part of C23 that the code keeps: the same for the decipher script,
\* and for the n-transform when the modern pattern does not find a
\* fragment that fails to compile
C23_HoldsUnlessModernFails ==
  (sxResult.kind = "return" /\ sxBody.modern # "bad") =>
    /\ sxResult.decipher = FirstCompiling(DecipherStrategies, sxBody)
    /\ IF FirstCompiling(AllNTransformStrategies, sxBody) = ""
       THEN sxResult.nTransform = NoMatch
       ELSE sxResult.nTransform
              = FirstCompiling(AllNTransformStrategies, sxBody)

\* the modern fragment did not compile, a later strategy has a fragment
\* that compiles, and extractNTransform returned null
C23_ModernFailureStopsSearch ==
  /\ sxResult.kind = "return"
  /\ sxBody.modern = "bad"
  /\ FirstCompiling(NTransformStrategies, sxBody) # ""
  /\ sxResult.nTransform = ""

\* ========================================================================
\* Part G: info.ts, the enrichment of the formats in getInfo
\* ========================================================================
\* the fields of a format that the enrichment reads, None and "" for a
\* missing one; averageBitrate is in bits per second
ParsedFormats ==
  [itag : {140, 249, 250, 251, 18, 999},
   qualityLabel : {"", "360p"},
   audioBitrate : {None, 96},
   averageBitrate : {None, 1500, 130000}]

\* an entry of the table FORMATS: its quality label and audio bitrate,
\* either of which can be null
NoFormatInfo == [qualityLabel |-> "", audioBitrate |-> None]
FormatInfos ==
  {NoFormatInfo} \cup [qualityLabel : {"", "360p"}, audioBitrate : {None, 128}]

Unenriched == [done |-> FALSE]

\* addFormatMeta: { ...formatInfo, ...format }, then hasVideo and
\* hasAudio from the merged quality label and audio bitrate
addFormatMeta(f, formatInfo) ==
  LET qualityLabel == IF f.qualityLabel # "" THEN f.qualityLabel
                      ELSE formatInfo.qualityLabel
      audioBitrate == IF f.audioBitrate # None THEN f.audioBitrate
                      ELSE formatInfo.audioBitrate
  IN  [itag |-> f.itag, qualityLabel |-> qualityLabel,
       audioBitrate |-> audioBitrate, averageBitrate |-> f.averageBitrate,
       hasVideo |-> qualityLabel # "", hasAudio |-> Truthy(audioBitrate),
       done |-> TRUE]

estimateAudioBitrate(f) ==
  IF f.itag = 140 THEN 128
  ELSE IF f.itag = 249 THEN 48
  ELSE IF f.itag = 250 THEN 64
  ELSE IF f.itag = 251 THEN 160
  ELSE IF Truthy(f.averageBitrate)
  THEN IF f.hasVideo THEN f.averageBitrate \div 10
       ELSE f.averageBitrate \div 1000
  ELSE IF f.hasVideo THEN 64 ELSE 128

\* the condition of the backfill
NeedsBackfill(f) == ~Truthy(f.audioBitrate) /\ f.hasAudio

\* the callback of info.formats.map, up to the backfill
EnhancedFormat(f, formatInfo) ==
  LET enhancedFormat == addFormatMeta(f, formatInfo)
  IN  IF NeedsBackfill(enhancedFormat)
      THEN [enhancedFormat EXCEPT
              !.audioBitrate = estimateAudioBitrate(enhancedFormat)]
      ELSE enhancedFormat

EnInit ==
  /\ enFormat \in ParsedFormats
  /\ enInfo \in FormatInfos
  /\ enResult = Unenriched

Enrich ==
  /\ ~enResult.done
  /\ enResult' = EnhancedFormat(enFormat, enInfo)
  /\ UNCHANGED <<enFormat, enInfo>>
  /\ UNCHANGED <<dlVars, cfVars, giVars, caVars, urVars, sxVars, agVars>>

EnNext == Enrich

EnIdle ==
  /\ enFormat = [itag |-> 0, qualityLabel |-> "", audioBitrate |-> None,
                 averageBitrate |-> None]
  /\ enInfo = NoFormatInfo
  /\ enResult = Unenriched

\* ---- properties ----
\* C27: a format whose audio bitrate is missing from the response leaves
\* the enrichment with a backfilled audio bitrate: the value of the itag
\* table (140 -> 128, 249 -> 48, 250 -> 64, 251 -> 160), else the estimate
\* from averageBitrate (a tenth with video, a thousandth without), else 64
\* with video and 128 without.
C27_MissingBitrateBackfilled ==
  (enResult.done /\ enFormat.audioBitrate = None)
    => enResult.audioBitrate = estimateAudioBitrate(enResult)

\* what the code does instead: the audio bitrate is the one of the
\* response or else of FORMATS, hasAudio says whether there is one, and
\* nothing is ever estimated
C27_BitrateOnlyMerged ==
  enResult.done
    => /\ enResult = addFormatMeta(enFormat, enInfo)
       /\ enResult.hasAudio = Truthy(enResult.audioBitrate)

\* a format of an itag that FORMATS does not list, without audio bitrate
\* in the response and with an averageBitrate to estimate from, was left
\* without audio bitrate
C27_LeftWithoutBitrate ==
  /\ enResult.done
  /\ enFormat.audioBitrate = None
  /\ enFormat.itag = 999
  /\ enInfo = NoFormatInfo
  /\ Truthy(enFormat.averageBitrate)
  /\ enResult.audioBitrate = None
  /\ ~enResult.hasAudio


\* ========================================================================
\* Part H: utils.ts / info.ts / agent.ts, the default agent's cookie jar
\* ========================================================================
MaxResolutions == 2

Resolutions == 1..MaxResolutions

\* a cookie string, as the set of the names of its cookies
CookieHeaders == {{"A"}, {"B"}, {"A", "SOCS"}}

\* the device profiles called by each resolution
ApiClients == {"IOS", "ANDROID"}

\* addCookies: the cookies of the list, and SOCS when the list has none
addCookies(cookies) ==
  IF "SOCS" \in cookies THEN cookies ELSE cookies \cup {"SOCS"}

\* addCookiesFromString: the cookies parsed from the string are added
addCookiesFromString(c) == addCookies(c)

\* createAgent(cookies): an agent with a cookie jar of its own
OwnJar(r) == addCookies(agOptions[r].cookie)

\* applyDefaultAgent: without options.agent the jar of the default agent
\* is emptied and filled from the cookie header, and the default agent
\* becomes options.agent
DefaultJarAfter(r) ==
  IF agAgent[r] = "" /\ agOptions[r].cookie # {}
  THEN addCookiesFromString(agOptions[r].cookie)
  ELSE jar
AgentAfter(r) == IF agAgent[r] = "" THEN "default" ELSE agAgent[r]

\* jar.getCookieStringSync(...) of options.agent, the default jar being j
CookieString(r, agent, j) == IF agent = "own" THEN OwnJar(r) ELSE j

AgInit ==
  /\ agOptions \in [Resolutions -> [agent : {"", "own"},
                                    cookie : CookieHeaders]]
  /\ \A r, q \in Resolutions :
       r # q => agOptions[r].cookie # agOptions[q].cookie
  /\ agAgent = [r \in Resolutions |-> agOptions[r].agent]
  /\ jar = {"SOCS"}
  /\ agPc = [r \in Resolutions |-> "called"]
  /\ agRequests = {}

\* getInfo up to its first await: applyDefaultAgent, then getBasicInfo
\* puts the cookie string of the jar into the headers and requests the
\* watch page
GetInfoCalled(r) ==
  /\ agPc[r] = "called"
  /\ jar' = DefaultJarAfter(r)
  /\ agAgent' = [agAgent EXCEPT ![r] = AgentAfter(r)]
  /\ agRequests' = agRequests \cup
       {[res |-> r, kind |-> "watch",
         cookie |-> CookieString(r, AgentAfter(r), DefaultJarAfter(r))]}
  /\ agPc' = [agPc EXCEPT ![r] = "watch"]
  /\ UNCHANGED agOptions
  /\ UNCHANGED <<dlVars, cfVars, giVars, caVars, urVars, sxVars, enVars>>

\* the watch page has arrived: getInfo calls playerAPI for the device
\* profiles, each request with the cookie string of the jar at that time
WatchPageArrived(r) ==
  /\ agPc[r] = "watch"
  /\ agRequests' = agRequests \cup
       {[res |-> r, kind |-> c,
         cookie |-> CookieString(r, agAgent[r], jar)] : c \in ApiClients}
  /\ agPc' = [agPc EXCEPT ![r] = "done"]
  /\ UNCHANGED <<agOptions, agAgent, jar>>
  /\ UNCHANGED <<dlVars, cfVars, giVars, caVars, urVars, sxVars, enVars>>

AgNext ==
  \/ \E r \in Resolutions : GetInfoCalled(r)
  \/ \E r \in Resolutions : WatchPageArrived(r)

AgIdle ==
  /\ agOptions = [r \in Resolutions |-> [agent |-> "", cookie |-> {}]]
  /\ agAgent = [r \in Resolutions |-> ""]
  /\ jar = {"SOCS"}
  /\ agPc = [r \in Resolutions |-> "called"]
  /\ agRequests = {}

\* ---- properties ----
\* the request carries the cookies of its own resolution
OwnCookies(q) == q.cookie = addCookies(agOptions[q.res].cookie)

\* C29: concurrent resolutions without explicit agent and with different
\* cookie headers do not interfere: every request of a resolution, for
\* the watch page and for the device profiles, carries the cookies of
\* that resolution, whatever the interleaving.
C29_OwnCookiesOnly ==
  (\A r \in Resolutions : agOptions[r].agent = "")
    => \A q \in agRequests : OwnCookies(q)

\* the part of C29 that the code keeps: the watch page request, sent in
\* the turn that fills the jar, and every request of a resolution with an
\* agent of its own carry the resolution's cookies; so do the device
\* profile requests when no other resolution has filled the default jar
\* in between
C29_HoldsWithinOneTurn ==
  \A q \in agRequests :
    \/ OwnCookies(q)
    \/ /\ q.kind # "watch"
       /\ agOptions[q.res].agent = ""
       /\ \E r \in Resolutions \ {q.res} :
            /\ agOptions[r].agent = ""
            /\ agPc[r] # "called"
            /\ q.cookie = addCookies(agOptions[r].cookie)

\* a device profile request of one resolution was sent with the cookies
\* of the other one
C29_ForeignCookiesSent ==
  /\ \A r \in Resolutions : agOptions[r].agent = ""
  /\ \E q \in agRequests, r \in Resolutions :
       /\ r # q.res
       /\ q.kind \in ApiClients
       /\ q.cookie = addCookies(agOptions[r].cookie)
       /\ ~OwnCookies(q)

\* both resolutions without agent have sent all their requests, one after
\* the other, each with its own cookies
C29_SequentialResolutions ==
  /\ \A r \in Resolutions : agOptions[r].agent = "" /\ agPc[r] = "done"
  /\ \A q \in agRequests : OwnCookies(q)


\* ========================================================================
\* Specifications
\* ========================================================================
vars == <<dlVars, cfVars, giVars, caVars, urVars, sxVars, enVars, agVars>>

\* the stream downloader
InitDl == DlInit /\ CfIdle /\ GiIdle /\ CaIdle /\ UrIdle /\ SxIdle /\ EnIdle /\ AgIdle
SpecDl == InitDl /\ [][DlNext]_vars

\* chooseFormat on every list and option of the bounded input sets
InitCf == CfInit /\ DlIdle /\ GiIdle /\ CaIdle /\ UrIdle /\ SxIdle /\ EnIdle /\ AgIdle
SpecCf == InitCf /\ [][CfNext]_vars

\* info.formats.sort(sortFormats) on the bounded lists
InitSf == SfInit /\ DlIdle /\ GiIdle /\ CaIdle /\ UrIdle /\ SxIdle /\ EnIdle /\ AgIdle
SpecSf == InitSf /\ [][SfNext]_vars

\* one resolution by getInfo
InitGi == GiInit /\ DlIdle /\ CfIdle /\ CaIdle /\ UrIdle /\ SxIdle /\ EnIdle /\ AgIdle
SpecGi == InitGi /\ [][GiNext]_vars

\* method calls, timers and producers of one Cache
InitCa == CaInit /\ DlIdle /\ CfIdle /\ GiIdle /\ UrIdle /\ SxIdle /\ EnIdle /\ AgIdle
SpecCa == InitCa /\ [][CaNext]_vars

\* one call of a function of url-utils on every input of the bounded set
InitUr == UrInit /\ DlIdle /\ CfIdle /\ GiIdle /\ CaIdle /\ SxIdle /\ EnIdle /\ AgIdle
SpecUr == InitUr /\ [][UrNext]_vars

\* the extractions of player scripts made by one process
InitSx == SxInit /\ DlIdle /\ CfIdle /\ GiIdle /\ CaIdle /\ UrIdle /\ EnIdle /\ AgIdle
SpecSx == InitSx /\ [][SxNext]_vars


\* the enrichment of a format
InitEn == EnInit /\ DlIdle /\ CfIdle /\ GiIdle /\ CaIdle /\ UrIdle /\ SxIdle /\ AgIdle
SpecEn == InitEn /\ [][EnNext]_vars


\* the stream downloader with a server that serves every request it can:
\* the events of a request that can emit are eventually delivered
InitDs == DlInit /\ CfIdle /\ GiIdle /\ CaIdle /\ UrIdle /\ SxIdle /\ EnIdle /\ AgIdle
SpecDs == InitDs /\ [][ServedNext]_vars /\ WF_vars(ServedNext)


\* concurrent resolutions sharing the default agent
InitAg == AgInit /\ DlIdle /\ CfIdle /\ GiIdle /\ CaIdle /\ UrIdle /\ SxIdle /\ EnIdle
SpecAg == InitAg /\ [][AgNext]_vars

====
